---------------------------- MODULE Spec2Model ----------------------------
(***************************************************************************)
(* A model of renderdoc/os/posix/freebsd/freebsd_process.cpp: the ptrace   *)
(* choreography that stops a freshly forked child at its entry point       *)
(* (StopChildAtMain / StopAtMainInChild), the tracer-scope gate            *)
(* (ptrace_scope_ok), the entry-address resolution and breakpoint patching *)
(* done inside StopChildAtMain, and the lsof parser of GetIdentPort.       *)
(*                                                                         *)
(* The module holds several specifications over one set of variables:      *)
(*   Spec         parent (StopChildAtMain) and child (StopAtMainInChild,   *)
(*                exec, run) interleaved, with the kernel's ptrace/waitpid *)
(*                semantics between them;                                  *)
(*   SpecGate     repeated calls of ptrace_scope_ok in one process while   *)
(*                the configuration changes;                               *)
(*   SpecPatch    breakpoint injection and restoration on every word;      *)
(*   SpecResolve  entry-address resolution on every map / ELF input;       *)
(*   SpecIdent    GetIdentPort on lsof-style output.                       *)
(***************************************************************************)
EXTENDS Integers, Sequences, FiniteSets, TLC

(***************************************************************************)
(* Bounds of the model (not program constants).                            *)
(***************************************************************************)
\* poll iterations of one wait_traced_child call before its deadline must have passed
MaxPolls == 2
\* signals other than the expected ones that the environment sends the tracee
MaxSignals == 1
\* section headers of a modelled ELF file
MaxSections == 2
\* largest section address / size / file offset / entry address of a modelled ELF file
MaxElfVal == 2
\* largest base address of a modelled executable mapping
MaxBase == 2
\* highest address of the tracee's address space that is mapped
MemTop == 4
\* field lines of a modelled lsof output after the p<PID> line
MaxLines == 2
\* the highest level the ptrace_scope file is written from
MaxScope == 11
\* the longest delay ResumeProcess is called with, in seconds
MaxDelay == 1

(***************************************************************************)
(* Characters and text.  A text is a sequence of one-character strings;    *)
(* the code's 0-based index i is At(s, i).                                 *)
(***************************************************************************)
NUL == "NUL"
Digits == <<"0", "1", "2", "3", "4", "5", "6", "7", "8", "9">>
IsDigit(c) == \E d \in 1..10 : Digits[d] = c
DigitVal(c) == (CHOOSE d \in 1..10 : Digits[d] = c) - 1
IsSpace(c) == c \in {" ", "\n", "\r", "\t"}

\* s[i] for a NUL-terminated buffer of Len(s) characters; index Len(s) is the terminator
At(s, i) == IF i >= 0 /\ i < Len(s) THEN s[i + 1] ELSE NUL

RECURSIVE Dec(_)
\* the decimal digits of n >= 0, as the kernel / lsof print a number
Dec(n) == IF n < 10 THEN <<Digits[n + 1]>> ELSE Dec(n \div 10) \o <<Digits[(n % 10) + 1]>>

RECURSIVE atoi_digits(_, _, _)
atoi_digits(s, i, acc) ==
  IF IsDigit(At(s, i)) THEN atoi_digits(s, i + 1, acc * 10 + DigitVal(At(s, i))) ELSE acc

RECURSIVE atoi_skip(_, _)
atoi_skip(s, i) == IF IsSpace(At(s, i)) THEN atoi_skip(s, i + 1) ELSE i

\* atoi(&s[i]): leading white space, an optional sign, then the decimal digits
atoi(s, i) ==
  LET j == atoi_skip(s, i)
  IN  IF At(s, j) = "-" THEN 0 - atoi_digits(s, j + 1, 0)
      ELSE IF At(s, j) = "+" THEN atoi_digits(s, j + 1, 0)
      ELSE atoi_digits(s, j, 0)

RECURSIVE trim(_)
\* rdcstr::trim: white space removed from both ends
trim(s) ==
  IF s = <<>> THEN s
  ELSE IF IsSpace(Head(s)) THEN trim(Tail(s))
  ELSE IF IsSpace(s[Len(s)]) THEN trim(SubSeq(s, 1, Len(s) - 1))
  ELSE s

(***************************************************************************)
(* The parser of GetIdentPort, lines 138-196.  `result` is the command's   *)
(* output and parseResult its copy, both of length len with a terminating  *)
(* NUL at index len; `beyond` is the character an index above len reads,   *)
(* whatever the memory after the terminator holds.                         *)
(***************************************************************************)
\* the port range of the target control servers
RenderDoc_FirstTargetControlPort == 38920
RenderDoc_LastTargetControlPort == 38927

\* isNewline, lines 109-112
isNewline(c) == c = "\n" \/ c = "\r"

\* parseResult[i]
CharAt(parseResult, i, beyond) == IF i <= Len(parseResult) THEN At(parseResult, i) ELSE beyond

\* parseResult[i] = 0: inside the text the character is replaced, at index len
\* the terminator is written again
PutNul(parseResult, i) ==
  IF i < Len(parseResult) THEN [parseResult EXCEPT ![i + 1] = NUL] ELSE parseResult

RECURSIVE ScanDigits(_, _)
\* lines 146-150 and 167-171: the first index from i on that is len or holds no
\* digit
ScanDigits(parseResult, i) ==
  IF i < Len(parseResult) /\ IsDigit(At(parseResult, i)) THEN ScanDigits(parseResult, i + 1)
  ELSE i

\* lines 151-154 and 172-175: parseResult[i++] = 0, then a newline is skipped
EndToken(parseResult, i, beyond) ==
  LET p == PutNul(parseResult, i)
  IN  [parseResult |-> p, i |-> IF isNewline(CharAt(p, i + 1, beyond)) THEN i + 2 ELSE i + 1]

\* whether needle is in s at index k
MatchAt(s, needle, k) ==
  /\ k + Len(needle) <= Len(s)
  /\ \A j \in 1..Len(needle) : s[k + j] = needle[j]

\* rdcstr::find(needle, first): the first index from `first` on where needle is
\* in s, -1 when there is none
find(s, needle, first) ==
  IF \E k \in first..Len(s) : MatchAt(s, needle, k)
  THEN CHOOSE k \in first..Len(s) :
         MatchAt(s, needle, k) /\ \A j \in first..(k - 1) : ~MatchAt(s, needle, j)
  ELSE -1

netString == <<"n", "*", ":">>

RECURSIVE ScanPorts_stop(_, _, _, _)
ScanPorts_stop(result, parseResult, i, beyond) ==
  IF ~(i < Len(parseResult)) THEN 0
  ELSE LET netStart == find(parseResult, netString, i)
       IN  IF netStart >= 0
           THEN LET tokenStart == netStart + Len(netString)
                    port == atoi(result, tokenStart)
                IN  IF port >= RenderDoc_FirstTargetControlPort
                       /\ port <= RenderDoc_LastTargetControlPort
                    THEN port
                    ELSE 0
           ELSE 0

RECURSIVE ScanPorts(_, _, _, _)
\* lines 161-188: the loop over the "n*:" markers from index i; the value after
\* the loop is the 0 of line 196
ScanPorts(result, parseResult, i, beyond) ==
  IF ~(i < Len(parseResult)) THEN 0
  ELSE LET netStart == find(parseResult, netString, i)
       IN  IF netStart >= 0
           THEN LET tokenStart == netStart + Len(netString)
                    t == EndToken(parseResult, ScanDigits(parseResult, tokenStart), beyond)
                    port == atoi(result, tokenStart)
                IN  IF port >= RenderDoc_FirstTargetControlPort
                       /\ port <= RenderDoc_LastTargetControlPort
                    THEN port
                    ELSE ScanPorts(result, t.parseResult, t.i, beyond)
           ELSE 0

\* lines 138-196 on a non-empty result
ParseIdent(result, childPid, beyond) ==
  IF At(result, 0) = "p"
  THEN LET t == EndToken(result, ScanDigits(result, 1), beyond)
           pid == atoi(result, 1)
       IN  IF pid = childPid THEN ScanPorts(result, t.parseResult, t.i, beyond) ELSE 0
  ELSE 0

\* the larger of two indexes
MaxOf(a, b) == IF a >= b THEN a ELSE b

RECURSIVE ScanPortsIndex(_, _, _, _)
\* the highest index of parseResult the loop of lines 161-188 reads or writes
\* from index i on (-1: none): the digits up to j, the 0 written at j (lines
\* 167-172) and the isNewline read at j + 1 (line 174)
ScanPortsIndex(result, parseResult, i, beyond) ==
  IF ~(i < Len(parseResult)) THEN -1
  ELSE LET netStart == find(parseResult, netString, i)
       IN  IF netStart >= 0
           THEN LET tokenStart == netStart + Len(netString)
                    j == ScanDigits(parseResult, tokenStart)
                    t == EndToken(parseResult, j, beyond)
                    port == atoi(result, tokenStart)
                IN  IF port >= RenderDoc_FirstTargetControlPort
                       /\ port <= RenderDoc_LastTargetControlPort
                    THEN j + 1
                    ELSE MaxOf(j + 1, ScanPortsIndex(result, t.parseResult, t.i, beyond))
           ELSE -1

\* the highest index of parseResult lines 140-175 read or write on a non-empty
\* result: index 0 (line 140), the digits up to j, the 0 written at j (lines
\* 146-151), the isNewline read at j + 1 (line 153), then the loop
ParseIdentIndex(result, childPid, beyond) ==
  IF At(result, 0) = "p"
  THEN LET j == ScanDigits(result, 1)
           t == EndToken(result, j, beyond)
           pid == atoi(result, 1)
       IN  MaxOf(j + 1, IF pid = childPid
                        THEN ScanPortsIndex(result, t.parseResult, t.i, beyond)
                        ELSE -1)
  ELSE 0

(***************************************************************************)
(* ptrace_scope_ok, lines 199-229.  `enabled` is the setting               *)
(* FreeBSD_PtraceChildProcesses(), `contents` what ReadAll got from the    *)
(* ptrace_scope file (empty when the file is absent), `replay` is          *)
(* RenderDoc::Inst().IsReplayApp(), `latch` the function's static `warned`.*)
(* The result is the return value, the latch afterwards and whether        *)
(* RDCWARN ran.                                                            *)
(***************************************************************************)
ptrace_scope_ok_nolatch(enabled, contents, replay, latch) ==
  LET t == trim(contents)
      deny == enabled /\ t # <<>> /\ atoi(t, 0) > 1
  IN  [ret |-> enabled /\ ~deny, warned |-> latch \/ (deny /\ replay), warn |-> deny /\ replay]

ptrace_scope_ok_nosetting(enabled, contents, replay, latch) ==
  LET t == trim(contents)
      deny == t # <<>> /\ atoi(t, 0) > 1
      hit == deny /\ replay /\ ~latch
  IN  [ret |-> ~deny, warned |-> latch \/ hit, warn |-> hit]

ptrace_scope_ok(enabled, contents, replay, latch) ==
  IF ~enabled THEN [ret |-> FALSE, warned |-> latch, warn |-> FALSE]
  ELSE LET t == trim(contents)
       IN  IF t # <<>> /\ atoi(t, 0) > 1
           THEN IF replay /\ ~latch
                THEN [ret |-> FALSE, warned |-> TRUE, warn |-> TRUE]
                ELSE [ret |-> FALSE, warned |-> latch, warn |-> FALSE]
           ELSE [ret |-> TRUE, warned |-> latch, warn |-> FALSE]


(***************************************************************************)
(* Machine words.  A uint64_t is its eight bytes, low-order byte first; a  *)
(* long is the LongBytes(arch) bytes of the build.  The build is one of    *)
(* the branches of the #if at lines 239-275.                               *)
(***************************************************************************)
ArchSet == {"arm", "aarch64", "x86", "x64"}

\* sizeof(long): pointer sized (line 413), 4 bytes on the 32-bit builds
LongBytes(arch) == IF arch \in {"arm", "x86"} THEN 4 ELSE 8

\* #define BREAK_INST, as a uint64_t (the ULL suffix)
BREAK_INST(arch) ==
  CASE arch = "arm"     -> <<240, 1, 240, 231, 0, 0, 0, 0>>
    [] arch = "aarch64" -> <<0, 0, 32, 212, 0, 0, 0, 0>>
    [] OTHER            -> <<204, 0, 0, 0, 0, 0, 0, 0>>

BREAK_INST_BYTES_SIZE(arch) == IF arch \in {"arm", "aarch64"} THEN 4 ELSE 1

BREAK_INST_INST_PTR_ADJUST(arch) == IF arch \in {"arm", "aarch64"} THEN 0 ELSE 1

RECURSIVE BitAnd(_, _, _)
\* a & b on n bits
BitAnd(a, b, n) ==
  IF n = 0 THEN 0 ELSE (a % 2) * (b % 2) + 2 * BitAnd(a \div 2, b \div 2, n - 1)

RECURSIVE BitOr(_, _, _)
\* a | b on n bits
BitOr(a, b, n) ==
  IF n = 0 THEN 0
  ELSE (IF a % 2 = 1 \/ b % 2 = 1 THEN 1 ELSE 0) + 2 * BitOr(a \div 2, b \div 2, n - 1)

And64(v, w) == [i \in 1..8 |-> BitAnd(v[i], w[i], 8)]
Or64(v, w) == [i \in 1..8 |-> BitOr(v[i], w[i], 8)]

\* 0xffffffffffffffffULL
AllOnes64 == [i \in 1..8 |-> 255]

\* v << bits on 64 bits, for a whole number of bytes
ShiftLeft64(v, bits) ==
  LET n == bits \div 8 IN [i \in 1..8 |-> IF i <= n THEN 0 ELSE v[i - n]]

\* (uint64_t)pio_val, line 527: the signed long is sign-extended to 64 bits
uint64_from_long(l, arch) ==
  LET n == LongBytes(arch)
  IN  [i \in 1..8 |-> IF i <= n THEN l[i] ELSE IF l[n] >= 128 THEN 255 ELSE 0]

long_from_uint64_high(w, arch) == [i \in 1..LongBytes(arch) |-> w[8 - LongBytes(arch) + i]]

\* (long)breakpointWord, lines 536 and 580: truncation to the long's bytes
long_from_uint64(w, arch) == [i \in 1..LongBytes(arch) |-> w[i]]

breakpointWord_nomask(origEntryWord, arch) == Or64(origEntryWord, BREAK_INST(arch))

\* lines 533-534
breakpointWord(origEntryWord, arch) ==
  Or64(And64(origEntryWord, ShiftLeft64(AllOnes64, BREAK_INST_BYTES_SIZE(arch) * 8)),
       BREAK_INST(arch))

(***************************************************************************)
(* The tracee's memory: the long at each address 1..MemTop; an address     *)
(* outside is not mapped and PT_IO on it fails.                            *)
(***************************************************************************)
Mapped(a) == a \in 1..MemTop

PeekWord(m, a, arch) == uint64_from_long(m[a], arch)

PokeWord(m, a, w, arch) == [m EXCEPT ![a] = long_from_uint64(w, arch)]

(***************************************************************************)
(* <sys/wait.h> and <signal.h> of FreeBSD, as the code uses them.          *)
(***************************************************************************)
SIGTRAP == 5
SIGSTOP == 17
SIGCONT == 19
\* a signal that is neither of the above
SIGUSR1 == 30

\* the status waitpid reports for a stop by signal sig
W_STOPCODE(sig) == sig * 256 + 127
\* the status waitpid reports for exit(code)
W_EXITCODE(code) == code * 256

WIFSTOPPED(x) == x % 128 = 127
WIFEXITED(x) == x % 128 = 0
WSTOPSIG(x) == x \div 256


(***************************************************************************)
(* Entry-address resolution, lines 392-510.                                *)
(*                                                                         *)
(* /proc/<pid>/map is [open, lines]; a line is [rx, parsed, start]: rx     *)
(* says the line holds "r-x", parsed that sscanf filled both fields        *)
(* (num == 2), start the mapping's start address.                          *)
(*                                                                         *)
(* The ELF file is [open, hdr, shentsize, e_entry, e_shoff, e_shnum,       *)
(* sections]: hdr says the header could be read, shentsize that            *)
(* e_shentsize is sizeof(Elf64_Shdr), sections the section headers that    *)
(* can be read at e_shoff, in file order (fewer than e_shnum when the file *)
(* is cut short).  size_t arithmetic is modulo 2^64; the modelled values   *)
(* stay far below.                                                         *)
(***************************************************************************)
RECURSIVE FirstExecLine(_, _)
\* lines 406-433: the index of the first line holding "r-x", 0 when there is none
FirstExecLine(lines, k) ==
  IF k > Len(lines) THEN 0
  ELSE IF lines[k].rx THEN k
  ELSE FirstExecLine(lines, k + 1)

\* lines 396-439: the base address of the first executable mapping, or failure
ParseMaps(map) ==
  IF ~map.open THEN [st |-> "fail", base |-> 0]
  ELSE LET k == FirstExecLine(map.lines, 1)
       IN  IF k = 0 THEN [st |-> "fail", base |-> 0]
           ELSE IF ~map.lines[k].parsed THEN [st |-> "fail", base |-> 0]
           ELSE IF map.lines[k].start = 0 THEN [st |-> "fail", base |-> 0]
           ELSE [st |-> "ok", base |-> map.lines[k].start]

\* lines 490-491
SectionContains(sh, entryVirtual) ==
  sh.sh_addr <= entryVirtual /\ entryVirtual < sh.sh_addr + sh.sh_size

RECURSIVE ScanSections_last(_, _, _)
ScanSections_last(elf, s, found) ==
  IF s >= elf.e_shnum THEN [st |-> "ok", off |-> found]
  ELSE IF s >= Len(elf.sections) THEN [st |-> "fail", off |-> 0]
  ELSE LET sh == elf.sections[s + 1]
       IN  IF SectionContains(sh, elf.e_entry)
           THEN ScanSections_last(elf, s + 1, (elf.e_entry - sh.sh_addr) + sh.sh_offset)
           ELSE ScanSections_last(elf, s + 1, found)

RECURSIVE ScanSections(_, _, _)
\* lines 478-505: the loop over the section headers from index s, entryFileOffset
\* being `found` so far; the first section containing the entry ends the loop
ScanSections(elf, s, found) ==
  IF s >= elf.e_shnum THEN [st |-> "ok", off |-> found]
  ELSE IF s >= Len(elf.sections) THEN [st |-> "fail", off |-> 0]
  ELSE LET sh == elf.sections[s + 1]
       IN  IF SectionContains(sh, elf.e_entry)
           THEN [st |-> "ok", off |-> (elf.e_entry - sh.sh_addr) + sh.sh_offset]
           ELSE ScanSections(elf, s + 1, found)

EntryFileOffset_novirt(elf) ==
  IF elf.e_shoff = 0 THEN [st |-> "ok", off |-> 0]
  ELSE IF ~elf.shentsize THEN [st |-> "fatal", off |-> 0]
  ELSE ScanSections(elf, 0, elf.e_entry)

\* lines 465-506: entryFileOffset, or the failure to read a section header, or the
\* failed assertion on e_shentsize
EntryFileOffset(elf) ==
  IF elf.e_shoff = 0 THEN [st |-> "ok", off |-> elf.e_entry]
  ELSE IF ~elf.shentsize THEN [st |-> "fatal", off |-> 0]
  ELSE ScanSections(elf, 0, elf.e_entry)

\* lines 392-510: [st, entry]; sectionOffset is 0 (line 420)
ResolveEntry(map, elf) ==
  LET m == ParseMaps(map)
  IN  IF m.st # "ok" THEN [st |-> "fail", entry |-> 0]
      ELSE IF ~elf.open \/ ~elf.hdr THEN [st |-> "fail", entry |-> 0]
      ELSE LET r == EntryFileOffset(elf)
           IN  IF r.st # "ok" THEN [st |-> r.st, entry |-> 0]
               ELSE [st |-> "ok", entry |-> (m.base + r.off) - 0]


(***************************************************************************)
(* State.                                                                  *)
(***************************************************************************)
VARIABLES
  \* the build and the configuration: FreeBSD_PtraceChildProcesses(), the level the
  \* ptrace_scope file was written from (-1: no file), its text, IsReplayApp()
  arch, cfgPtrace, scopeLevel, scopeFile, replayApp,
  \* ptrace_scope_ok's static `warned` of each process, the warnings each process
  \* has logged, and the last call of the gate
  warned, warnings, lastGate,
  \* StopChildAtMain: where it is, where its wait_traced_child is, the polls of
  \* that wait, childStatus, the return value, entry, origEntryWord, regs.INST_PTR_REG
  pc, wpc, polls, childStatus, ret, entry, origEntryWord, regs,
  \* the child process: where it is, its run state, whether it is traced by the
  \* parent, the wait status not yet collected, its instruction pointer, the
  \* unexpected signals it has got
  cpc, runState, traced, evPending, evStatus, childIP, sigs,
  \* the child's address space and program: memory, the image as loaded, the
  \* address the program really starts at, /proc/<pid>/map and the ELF file
  mem, image, trueEntry, procMap, elfFile,
  \* history: the tracer's actions in order, the results of its waits, the
  \* system calls issued by each process, the instruction pointer when the third
  \* wait returned, the word at entry when it was read, whether the tracee was
  \* seen stopped during the current wait
  log, waitRet, sys, ipAtStop, wordBefore, stopSeen,
  \* GetIdentPort: where it is, childPid, the runs of execcmd so far, `wait`,
  \* `result`, the lines the command printed, the return value, the arguments
  \* of its usleep calls in order, the highest index of the text the parser has
  \* read or written (-1: none)
  ipc, childPid, tries, wait, result, outLines, portRet, slept, maxIndex,
  \* ResumeProcess: where it is, its childPid and delaySeconds, start_nano,
  \* end_nano, connected, the calls it has made in order; the monotonic clock in
  \* seconds, the form of /proc/<pid>/status, whether a debugger has attached to
  \* the child
  rpc, resumePid, delaySeconds, start_nano, end_nano, connected, rlog,
  now, statusKind, debugger,
  \* the debugger-presence flag of line 690, whether CacheDebuggerPresent has been
  \* called, the pid of the process tracing this one, the value of the flag when
  \* CacheDebuggerPresent returned, what OSUtility::DebuggerPresent has returned
  \* since
  debuggerPresent, dpc, selfTracer, computed, answers

dbgVars == <<debuggerPresent, dpc, selfTracer, computed, answers>>
restVars ==
  <<rpc, resumePid, delaySeconds, start_nano, end_nano, connected, rlog, now, statusKind,
    debugger, dbgVars>>
identVars == <<ipc, childPid, tries, wait, result, outLines, portRet, slept, maxIndex>>
envVars == <<arch, cfgPtrace, scopeLevel, scopeFile, replayApp>>
gateVars == <<warned, warnings, lastGate>>
tracerVars == <<pc, wpc, polls, childStatus, ret, entry, origEntryWord, regs>>
procVars == <<cpc, runState, traced, evPending, evStatus, childIP, sigs>>
imageVars == <<mem, image, trueEntry, procMap, elfFile>>
histVars == <<log, waitRet, sys, ipAtStop, wordBefore, stopSeen>>
vars ==
  <<envVars, gateVars, tracerVars, procVars, imageVars, histVars, identVars, restVars>>

Procs == {"parent", "child"}
WaitStages == {"wait1", "wait2", "wait3"}

(***************************************************************************)
(* The programs the child runs.  A cell of an image holds a long whose     *)
(* low byte and high byte come from the image's seed and whose other bytes *)
(* are the cell's address, so that no two cells hold the same word.        *)
(***************************************************************************)
CellWord(a, seed, ar) ==
  [i \in 1..LongBytes(ar) |-> IF i = 1 THEN seed.lo ELSE IF i = LongBytes(ar) THEN seed.hi ELSE a]

Image(seed, ar) == [a \in 1..MemTop |-> CellWord(a, seed, ar)]

\* the image the child is forked with, and the images exec may load
OldSeed == [lo |-> 144, hi |-> 0]
NewSeeds == {[lo |-> 85, hi |-> 0], [lo |-> 85, hi |-> 255]}

MapLine(rx, parsed, start) == [rx |-> rx, parsed |-> parsed, start |-> start]
ElfFile(open, hdr, shentsize, e_entry, e_shoff, e_shnum, sections) ==
  [open |-> open, hdr |-> hdr, shentsize |-> shentsize, e_entry |-> e_entry,
   e_shoff |-> e_shoff, e_shnum |-> e_shnum, sections |-> sections]
Section(a, n, o) == [sh_addr |-> a, sh_size |-> n, sh_offset |-> o]

OldMap == [open |-> TRUE, lines |-> <<MapLine(TRUE, TRUE, 1)>>]
OldElf == ElfFile(TRUE, TRUE, TRUE, 1, 0, 0, <<>>)

\* what exec may leave in /proc/<pid>/map and in the executable: a flat binary, one
\* whose section holds the entry, one none of whose sections does, one whose entry
\* resolves to an unmapped address, a map with no executable line, an unreadable file
ExecFiles ==
  { [map |-> OldMap, elf |-> ElfFile(TRUE, TRUE, TRUE, 1, 0, 0, <<>>)],
    [map |-> [open |-> TRUE, lines |-> <<MapLine(FALSE, TRUE, 3), MapLine(TRUE, TRUE, 1)>>],
     elf |-> ElfFile(TRUE, TRUE, TRUE, 2, 1, 1, <<Section(1, 2, 0)>>)],
    [map |-> [open |-> TRUE, lines |-> <<MapLine(TRUE, TRUE, 2)>>],
     elf |-> ElfFile(TRUE, TRUE, TRUE, 2, 1, 1, <<Section(0, 1, 0)>>)],
    [map |-> OldMap, elf |-> ElfFile(TRUE, TRUE, TRUE, MemTop, 0, 0, <<>>)],
    [map |-> [open |-> TRUE, lines |-> <<MapLine(FALSE, TRUE, 1)>>], elf |-> OldElf],
    [map |-> OldMap, elf |-> ElfFile(TRUE, FALSE, TRUE, 0, 0, 0, <<>>)] }

\* where the loaded program may really start
TrueEntries == {2, MemTop}

\* instruction pointers of the child away from its entry point
HookIP == MemTop + 1
StartIP == MemTop + 2
MainIP == MemTop + 3

Zero64 == [i \in 1..8 |-> 0]
NoGate == [proc |-> "none", ret |-> FALSE, warn |-> FALSE, enabled |-> FALSE,
           level |-> -1, replay |-> FALSE]

(***************************************************************************)
(* The gate as each process calls it.                                      *)
(***************************************************************************)
GateRet(p) == ptrace_scope_ok(cfgPtrace, scopeFile, replayApp, warned[p]).ret

GateCall(p) ==
  LET r == ptrace_scope_ok(cfgPtrace, scopeFile, replayApp, warned[p])
  IN  /\ warned' = [warned EXCEPT ![p] = r.warned]
      /\ warnings' = [warnings EXCEPT ![p] = IF r.warn /\ @ < 2 THEN @ + 1 ELSE @]
      /\ lastGate' = [proc |-> p, ret |-> r.ret, warn |-> r.warn, enabled |-> cfgPtrace,
                      level |-> scopeLevel, replay |-> replayApp]

(***************************************************************************)
(* The kernel, as the code relies on it.                                   *)
(***************************************************************************)
\* a ptrace request of the parent on the child succeeds when the child is traced
\* and stopped
PtraceOk == traced /\ runState = "stopped"

\* the child stops by signal sig: the parent can collect the status
ChildStops(sig) ==
  /\ runState' = "stopped"
  /\ evPending' = TRUE
  /\ evStatus' = W_STOPCODE(sig)
  /\ stopSeen' = IF pc \in WaitStages THEN TRUE ELSE stopSeen

\* the child ends with wait status st
ChildEnds(st) ==
  /\ runState' = "zombie"
  /\ evPending' = TRUE
  /\ evStatus' = st

\* a wait status is collected: a stop is reported once, an ended child is reaped
Collect ==
  /\ evPending' = FALSE
  /\ runState' = IF runState = "zombie" THEN "reaped" ELSE runState

\* the instruction executed at address a is the trap
IsTrap(m, a, ar) ==
  \A i \in 1..BREAK_INST_BYTES_SIZE(ar) : m[a][i] = BREAK_INST(ar)[i]

RDCASSERTEQUAL_logged(ok, next) == next

\* RDCASSERTEQUAL(ptraceRet, 0) and the like: a failed assertion ends the sequence
RDCASSERTEQUAL(ok, next) == IF ok THEN next ELSE "fatal"


(***************************************************************************)
(* wait_traced_child, lines 288-328, inside the wait stage pc of           *)
(* StopChildAtMain.  Each system call is one step: the child runs between  *)
(* them.                                                                   *)
(***************************************************************************)
AfterWait_nosig(stage, ok, status) ==
  IF ~ok THEN "fail"
  ELSE CASE stage = "wait1" -> "lwpinfo"
         [] stage = "wait2" ->
              IF status > 0 /\ ~(WIFSTOPPED(status) \/ WIFEXITED(status))
              THEN "fail" ELSE "resolve"
         [] OTHER -> "getregs"

AfterWait_ignore(stage, ok, status) ==
  CASE stage = "wait1" -> "lwpinfo"
    [] stage = "wait2" -> "resolve"
    [] OTHER           -> "getregs"

\* what StopChildAtMain does with the result of a wait: lines 343-354, 377-387
\* and 554-558; "fail" is `return false`
AfterWait(stage, ok, status) ==
  IF ~ok THEN "fail"
  ELSE CASE stage = "wait1" ->
              IF status > 0 /\ WSTOPSIG(status) # SIGSTOP THEN "fail" ELSE "lwpinfo"
         [] stage = "wait2" ->
              IF status > 0 /\ ~(WIFSTOPPED(status) \/ WIFEXITED(status))
              THEN "fail" ELSE "resolve"
         [] OTHER -> "getregs"

wait_result_true(status) == TRUE

\* line 327: return WIFSTOPPED(status)
wait_result(status) == WIFSTOPPED(status)

\* wait_traced_child returns ok with `status`
WaitReturn(ok, status) ==
  LET nx == AfterWait(pc, ok, status)
  IN  /\ childStatus' = status
      /\ waitRet' = Append(waitRet, ok)
      /\ log' = Append(log, pc)
      /\ ipAtStop' = IF pc = "wait3" THEN childIP ELSE ipAtStop
      /\ wpc' = "-"
      /\ polls' = 0
      /\ pc' = IF nx = "fail" THEN "done" ELSE nx
      /\ ret' = IF nx = "fail" THEN "false" ELSE ret

\* line 298: waitpid(childPid, &status, WNOHANG); a status ends the loop and the
\* result is WIFSTOPPED(status), line 327
W_Waitpid ==
  /\ pc \in WaitStages /\ wpc = "waitpid"
  /\ sys' = sys \cup {<<"StopChildAtMain", "waitpid">>}
  /\ IF evPending
     THEN /\ Collect
          /\ WaitReturn(wait_result(evStatus), evStatus)
     ELSE /\ wpc' = "getip"
          /\ childStatus' = 0
          /\ UNCHANGED <<pc, polls, ret, runState, evPending, log, waitRet, ipAtStop>>
  /\ UNCHANGED <<restVars, identVars, envVars, gateVars, entry, origEntryWord, regs, cpc,
                 traced,
                 evStatus,
                 childIP, sigs, imageVars, wordBefore, stopSeen>>

get_child_ip_always == childIP

\* get_child_ip, lines 277-286: the instruction pointer, 0 when PT_GETREGS fails
get_child_ip == IF PtraceOk THEN childIP ELSE 0

\* lines 305-306
W_GetIP ==
  /\ pc \in WaitStages /\ wpc = "getip"
  /\ sys' = sys \cup {<<"StopChildAtMain", "PT_GETREGS">>}
  /\ wpc' = IF get_child_ip # 0 THEN "waitpid2" ELSE "sleep"
  /\ UNCHANGED <<restVars, identVars, envVars, gateVars, pc, polls, childStatus, ret, entry,
                 origEntryWord, regs,
                 procVars, imageVars, log, waitRet, ipAtStop, wordBefore, stopSeen>>

\* lines 310-316: the second waitpid; its status when it is this child's, else 0
W_Waitpid2 ==
  /\ pc \in WaitStages /\ wpc = "waitpid2"
  /\ sys' = sys \cup {<<"StopChildAtMain", "waitpid">>}
  /\ IF evPending
     THEN Collect /\ WaitReturn(TRUE, evStatus)
     ELSE WaitReturn(TRUE, 0) /\ UNCHANGED <<runState, evPending>>
  /\ UNCHANGED <<restVars, identVars, envVars, gateVars, entry, origEntryWord, regs, cpc,
                 traced,
                 evStatus,
                 childIP, sigs, imageVars, wordBefore, stopSeen>>

W_Sleep_unbounded ==
  /\ pc \in WaitStages /\ wpc = "sleep"
  /\ wpc' = "waitpid"
  /\ UNCHANGED <<restVars, identVars, envVars, gateVars, pc, polls, childStatus, ret, entry,
                 origEntryWord, regs, procVars, imageVars, histVars>>

\* lines 319-325: usleep(10), then the deadline; the clock has passed it at the
\* latest after MaxPolls sleeps
W_Sleep ==
  /\ pc \in WaitStages /\ wpc = "sleep"
  /\ \/ /\ polls < MaxPolls
        /\ polls' = polls + 1
        /\ wpc' = "waitpid"
        /\ UNCHANGED <<pc, childStatus, ret, log, waitRet, ipAtStop>>
     \/ WaitReturn(wait_result(0), 0)
  /\ UNCHANGED <<restVars, identVars, envVars, gateVars, entry, origEntryWord, regs, procVars,
                 imageVars,
                 sys, wordBefore, stopSeen>>

(***************************************************************************)
(* StopChildAtMain, lines 330-594.                                         *)
(***************************************************************************)
\* lines 332-334
S_Gate ==
  /\ pc = "gate"
  /\ GateCall("parent")
  /\ log' = Append(log, "gate")
  /\ IF GateRet("parent")
     THEN pc' = "wait1" /\ wpc' = "waitpid" /\ ret' = ret /\ stopSeen' = (runState = "stopped")
     ELSE pc' = "done" /\ wpc' = wpc /\ ret' = "false" /\ stopSeen' = stopSeen
  /\ polls' = 0
  /\ childStatus' = 0
  /\ UNCHANGED <<restVars, identVars, envVars, entry, origEntryWord, regs, procVars, imageVars,
                 waitRet, sys,
                 ipAtStop, wordBefore>>

\* lines 362-365: ptrace(PT_LWPINFO) with pl_flags = PL_FLAG_EXEC
S_LwpInfo ==
  /\ pc = "lwpinfo"
  /\ pc' = RDCASSERTEQUAL(PtraceOk, "cont1")
  /\ log' = Append(log, "arm")
  /\ sys' = sys \cup {<<"StopChildAtMain", "PT_LWPINFO">>}
  /\ UNCHANGED <<restVars, identVars, envVars, gateVars, wpc, polls, childStatus, ret, entry,
                 origEntryWord, regs,
                 procVars, imageVars, waitRet, ipAtStop, wordBefore, stopSeen>>

\* ptrace(PT_CONTINUE, childPid, 1, 0): the child runs on with no signal delivered
Continue(next) ==
  /\ log' = Append(log, "continue")
  /\ sys' = sys \cup {<<"StopChildAtMain", "PT_CONTINUE">>}
  /\ IF PtraceOk
     THEN runState' = "running" /\ evPending' = FALSE
     ELSE UNCHANGED <<runState, evPending>>
  /\ pc' = RDCASSERTEQUAL(PtraceOk, next)
  /\ wpc' = IF PtraceOk THEN "waitpid" ELSE wpc
  /\ polls' = 0
  /\ childStatus' = IF PtraceOk THEN 0 ELSE childStatus
  /\ stopSeen' = FALSE
  /\ UNCHANGED <<restVars, identVars, envVars, gateVars, ret, entry, origEntryWord, regs, cpc,
                 traced,
                 evStatus,
                 childIP, sigs, imageVars, waitRet, ipAtStop, wordBefore>>

\* lines 372-373
S_Cont1 == pc = "cont1" /\ Continue("wait2")

\* lines 392-510
S_Resolve ==
  /\ pc = "resolve"
  /\ LET r == ResolveEntry(procMap, elfFile)
     IN  /\ pc' = IF r.st = "ok" THEN "peek" ELSE IF r.st = "fatal" THEN "fatal" ELSE "done"
         /\ ret' = IF r.st = "fail" THEN "false" ELSE ret
         /\ entry' = IF r.st = "ok" THEN r.entry ELSE entry
  /\ log' = Append(log, "resolve")
  /\ UNCHANGED <<restVars, identVars, envVars, gateVars, wpc, polls, childStatus,
                 origEntryWord, regs,
                 procVars,
                 imageVars, waitRet, sys, ipAtStop, wordBefore, stopSeen>>

\* lines 517-527: PT_IO, PIOD_READ_I of one long at entry
S_Peek ==
  /\ pc = "peek"
  /\ LET ok == PtraceOk /\ Mapped(entry)
     IN  /\ pc' = RDCASSERTEQUAL(ok, "poke")
         /\ origEntryWord' = IF ok THEN PeekWord(mem, entry, arch) ELSE origEntryWord
         /\ wordBefore' = IF ok THEN mem[entry] ELSE wordBefore
  /\ log' = Append(log, "read")
  /\ sys' = sys \cup {<<"StopChildAtMain", "PT_IO">>}
  /\ UNCHANGED <<restVars, identVars, envVars, gateVars, wpc, polls, childStatus, ret, entry,
                 regs,
                 procVars,
                 imageVars, waitRet, ipAtStop, stopSeen>>

\* lines 533-543: PT_IO, PIOD_WRITE_I of the breakpoint word
S_Poke ==
  /\ pc = "poke"
  /\ LET ok == PtraceOk /\ Mapped(entry)
     IN  /\ pc' = RDCASSERTEQUAL(ok, "cont2")
         /\ mem' = IF ok THEN PokeWord(mem, entry, breakpointWord(origEntryWord, arch), arch)
                   ELSE mem
  /\ log' = Append(log, "inject")
  /\ sys' = sys \cup {<<"StopChildAtMain", "PT_IO">>}
  /\ UNCHANGED <<restVars, identVars, envVars, gateVars, wpc, polls, childStatus, ret, entry,
                 origEntryWord, regs,
                 procVars, image, trueEntry, procMap, elfFile, waitRet, ipAtStop,
                 wordBefore, stopSeen>>

\* lines 550-551
S_Cont2 == pc = "cont2" /\ Continue("wait3")

\* lines 565-568
S_GetRegs ==
  /\ pc = "getregs"
  /\ pc' = RDCASSERTEQUAL(PtraceOk, "setregs")
  /\ regs' = IF PtraceOk THEN childIP ELSE regs
  /\ log' = Append(log, "getregs")
  /\ sys' = sys \cup {<<"StopChildAtMain", "PT_GETREGS">>}
  /\ UNCHANGED <<restVars, identVars, envVars, gateVars, wpc, polls, childStatus, ret, entry,
                 origEntryWord,
                 procVars, imageVars, waitRet, ipAtStop, wordBefore, stopSeen>>

RolledBackIP_none(ip, ar) == ip

\* line 575: regs.INST_PTR_REG -= BREAK_INST_INST_PTR_ADJUST
RolledBackIP(ip, ar) == ip - BREAK_INST_INST_PTR_ADJUST(ar)

\* lines 575-577
S_SetRegs ==
  /\ pc = "setregs"
  /\ pc' = RDCASSERTEQUAL(PtraceOk, "restore")
  /\ regs' = RolledBackIP(regs, arch)
  /\ childIP' = IF PtraceOk THEN RolledBackIP(regs, arch) ELSE childIP
  /\ log' = Append(log, "setregs")
  /\ sys' = sys \cup {<<"StopChildAtMain", "PT_SETREGS">>}
  /\ UNCHANGED <<restVars, identVars, envVars, gateVars, wpc, polls, childStatus, ret, entry,
                 origEntryWord,
                 cpc, runState, traced, evPending, evStatus, sigs, imageVars, waitRet,
                 ipAtStop, wordBefore, stopSeen>>

\* lines 580-593: PT_IO, PIOD_WRITE_I of origEntryWord, then `return true`
Restore(at) ==
  /\ pc = at
  /\ LET ok == PtraceOk /\ Mapped(entry)
     IN  /\ pc' = RDCASSERTEQUAL(ok, "done")
         /\ ret' = IF ok THEN "true" ELSE ret
         /\ mem' = IF ok THEN PokeWord(mem, entry, origEntryWord, arch) ELSE mem
  /\ log' = Append(log, "restore")
  /\ sys' = sys \cup {<<"StopChildAtMain", "PT_IO">>}
  /\ UNCHANGED <<restVars, identVars, envVars, gateVars, wpc, polls, childStatus, entry,
                 origEntryWord,
                 regs,
                 procVars, image, trueEntry, procMap, elfFile, waitRet, ipAtStop,
                 wordBefore, stopSeen>>

S_Restore == Restore("restore")


(***************************************************************************)
(* The child: StopAtMainInChild, lines 596-615, then exec and the program. *)
(* The child takes a step only while it is running.                        *)
(***************************************************************************)
\* lines 598-600
C_Gate ==
  /\ cpc = "hook_gate" /\ runState = "running"
  /\ GateCall("child")
  /\ cpc' = IF GateRet("child") THEN "traceme" ELSE "exec"
  /\ UNCHANGED <<restVars, identVars, envVars, tracerVars, runState, traced, evPending,
                 evStatus,
                 childIP, sigs,
                 imageVars, histVars>>

\* line 606: ptrace(PT_TRACE_ME, 0, 0, 0)
C_TraceMe ==
  /\ cpc = "traceme" /\ runState = "running"
  /\ traced' = TRUE
  /\ cpc' = "raise"
  /\ sys' = sys \cup {<<"StopAtMainInChild", "PT_TRACE_ME">>}
  /\ UNCHANGED <<restVars, identVars, envVars, gateVars, tracerVars, runState, evPending,
                 evStatus,
                 childIP, sigs,
                 imageVars, log, waitRet, ipAtStop, wordBefore, stopSeen>>

C_Raise_noop ==
  /\ cpc = "raise" /\ runState = "running"
  /\ cpc' = "hook_ret"
  /\ sys' = sys \cup {<<"StopAtMainInChild", "raise">>}
  /\ UNCHANGED <<restVars, identVars, envVars, gateVars, tracerVars, runState, traced,
                 evPending, evStatus,
                 childIP, sigs, imageVars, log, waitRet, ipAtStop, wordBefore, stopSeen>>

\* line 611: raise(SIGSTOP); a traced process stops and its tracer is told
C_Raise ==
  /\ cpc = "raise" /\ runState = "running"
  /\ cpc' = "hook_ret"
  /\ sys' = sys \cup {<<"StopAtMainInChild", "raise">>}
  /\ ChildStops(SIGSTOP)
  /\ UNCHANGED <<restVars, identVars, envVars, gateVars, tracerVars, traced, childIP, sigs,
                 imageVars,
                 log,
                 waitRet, ipAtStop, wordBefore>>

\* lines 613-615: resumed, the hook returns to the launcher
C_HookRet ==
  /\ cpc = "hook_ret" /\ runState = "running"
  /\ cpc' = "exec"
  /\ UNCHANGED <<restVars, identVars, envVars, gateVars, tracerVars, runState, traced,
                 evPending,
                 evStatus,
                 childIP, sigs, imageVars, histVars>>

\* the launcher's exec: a new image replaces the address space and a traced
\* process stops with SIGTRAP before its first instruction; or exec fails and the
\* child ends
C_Exec ==
  /\ cpc = "exec" /\ runState = "running"
  /\ \/ /\ \E f \in ExecFiles, seed \in NewSeeds, te \in TrueEntries :
             /\ procMap' = f.map
             /\ elfFile' = f.elf
             /\ mem' = Image(seed, arch)
             /\ image' = Image(seed, arch)
             /\ trueEntry' = te
        /\ cpc' = "startup"
        /\ childIP' = StartIP
        /\ IF traced THEN ChildStops(SIGTRAP)
                     ELSE UNCHANGED <<runState, evPending, evStatus, stopSeen>>
     \/ /\ cpc' = "gone"
        /\ ChildEnds(W_EXITCODE(1))
        /\ UNCHANGED <<childIP, imageVars, stopSeen>>
  /\ UNCHANGED <<restVars, identVars, envVars, gateVars, tracerVars, traced, sigs, log,
                 waitRet, sys,
                 ipAtStop,
                 wordBefore>>

\* the program runs from its start to its entry point and executes the
\* instruction there: the trap stops a traced process with SIGTRAP, the
\* instruction pointer past the trap by BREAK_INST_INST_PTR_ADJUST
C_Run ==
  /\ cpc = "startup" /\ runState = "running"
  /\ IF IsTrap(mem, trueEntry, arch)
     THEN /\ cpc' = "trapped"
          /\ childIP' = trueEntry + BREAK_INST_INST_PTR_ADJUST(arch)
          /\ IF traced THEN ChildStops(SIGTRAP)
                       ELSE ChildEnds(SIGTRAP) /\ stopSeen' = stopSeen
     ELSE /\ cpc' = "main"
          /\ childIP' = MainIP
          /\ UNCHANGED <<runState, evPending, evStatus, stopSeen>>
  /\ UNCHANGED <<restVars, identVars, envVars, gateVars, tracerVars, traced, sigs, imageVars,
                 log,
                 waitRet, sys,
                 ipAtStop, wordBefore>>

\* the program ends
C_Exit ==
  /\ cpc = "main" /\ runState = "running"
  /\ cpc' = "gone"
  /\ \E code \in {0, 1} : ChildEnds(W_EXITCODE(code))
  /\ UNCHANGED <<restVars, identVars, envVars, gateVars, tracerVars, traced, childIP, sigs,
                 imageVars,
                 histVars>>

\* another signal reaches the traced child: it stops and its tracer is told
Env_Signal ==
  /\ traced /\ runState = "running" /\ cpc # "gone"
  /\ sigs < MaxSignals
  /\ sigs' = sigs + 1
  /\ ChildStops(SIGUSR1)
  /\ UNCHANGED <<restVars, identVars, envVars, gateVars, tracerVars, cpc, traced, childIP,
                 imageVars, log,
                 waitRet, sys, ipAtStop, wordBefore>>

\* lines 302-304: the process itself has done waitpid(-1) and swallowed the wait
\* for the child
Env_Swallow ==
  /\ evPending
  /\ Collect
  /\ UNCHANGED <<restVars, identVars, envVars, gateVars, tracerVars, cpc, traced, evStatus,
                 childIP, sigs,
                 imageVars, histVars>>

(***************************************************************************)
(* Spec: the parent calls StopChildAtMain on a child that has just been    *)
(* forked and calls StopAtMainInChild.                                     *)
(***************************************************************************)
\* the settings of the run: tracing enabled with no ptrace_scope file, tracing
\* enabled with the file holding 2, tracing disabled
MainConfigs ==
  { [enabled |-> TRUE, level |-> -1, text |-> <<>>],
    [enabled |-> TRUE, level |-> 2, text |-> <<"2", "\n">>],
    [enabled |-> FALSE, level |-> -1, text |-> <<>>] }

IdleGate ==
  /\ warned = [p \in Procs |-> FALSE]
  /\ warnings = [p \in Procs |-> 0]
  /\ lastGate = NoGate

IdleTracer ==
  /\ wpc = "-"
  /\ polls = 0
  /\ childStatus = 0
  /\ ret = "none"
  /\ entry = 0
  /\ origEntryWord = Zero64
  /\ regs = 0

\* GetIdentPort is not running
IdleIdent ==
  /\ ipc = "off"
  /\ childPid = 0
  /\ tries = 0
  /\ wait = 1
  /\ result = <<>>
  /\ outLines = <<>>
  /\ portRet = 0
  /\ slept = <<>>
  /\ maxIndex = -1

\* ResumeProcess is not running, CacheDebuggerPresent has not been called
IdleRest ==
  /\ rpc = "off"
  /\ resumePid = 0
  /\ delaySeconds = 0
  /\ start_nano = 0
  /\ end_nano = 0
  /\ connected = FALSE
  /\ rlog = <<>>
  /\ now = 0
  /\ statusKind = "linux"
  /\ debugger = FALSE
  /\ debuggerPresent = FALSE
  /\ dpc = "start"
  /\ selfTracer = 0
  /\ computed = "none"
  /\ answers = {}

IdleHistory ==
  /\ log = <<>>
  /\ waitRet = <<>>
  /\ sys = {}
  /\ ipAtStop = 0
  /\ wordBefore = <<>>
  /\ stopSeen = FALSE

Init ==
  /\ arch \in ArchSet
  /\ \E c \in MainConfigs : cfgPtrace = c.enabled /\ scopeLevel = c.level /\ scopeFile = c.text
  /\ replayApp \in BOOLEAN
  /\ IdleGate
  /\ pc = "gate"
  /\ IdleTracer
  /\ cpc = "hook_gate"
  /\ runState = "running"
  /\ traced = FALSE
  /\ evPending = FALSE
  /\ evStatus = 0
  /\ childIP = HookIP
  /\ sigs = 0
  /\ mem = Image(OldSeed, arch)
  /\ image = Image(OldSeed, arch)
  /\ trueEntry = 0
  /\ procMap = OldMap
  /\ elfFile = OldElf
  /\ IdleHistory
  /\ IdleIdent
  /\ IdleRest

Next ==
  \/ S_Gate \/ W_Waitpid \/ W_GetIP \/ W_Waitpid2 \/ W_Sleep
  \/ S_LwpInfo \/ S_Cont1 \/ S_Resolve \/ S_Peek \/ S_Poke \/ S_Cont2
  \/ S_GetRegs \/ S_SetRegs \/ S_Restore
  \/ C_Gate \/ C_TraceMe \/ C_Raise \/ C_HookRet \/ C_Exec \/ C_Run \/ C_Exit
  \/ Env_Signal \/ Env_Swallow

Spec == Init /\ [][Next]_vars


(***************************************************************************)
(* Properties of StopChildAtMain and StopAtMainInChild, under Spec.        *)
(***************************************************************************)
Returned(v) == pc = "done" /\ ret = v

\* C1: whenever StopChildAtMain returns true the tracee is stopped, the word at
\* the resolved entry address is the word that was there when the injection read
\* it, the instruction pointer is the one of the stop the third wait saw minus
\* BREAK_INST_INST_PTR_ADJUST, and the last thing done was the restoration.
C1_ReturnsTrueRestored ==
  [][(pc # "done" /\ pc' = "done" /\ ret' = "true") =>
       /\ runState' = "stopped"
       /\ Mapped(entry')
       /\ mem'[entry'] = wordBefore'
       /\ childIP' = ipAtStop' - BREAK_INST_INST_PTR_ADJUST(arch)
       /\ log'[Len(log')] = "restore"
       /\ pc = "restore"]_vars

\* a run that returns true after the breakpoint was hit on a build that rolls the
\* instruction pointer back, on a word whose high byte makes the long negative
C1_Witness ==
  /\ Returned("true")
  /\ cpc = "trapped"
  /\ BREAK_INST_INST_PTR_ADJUST(arch) = 1
  /\ wordBefore[LongBytes(arch)] = 255
  /\ mem[entry] = wordBefore
  /\ childIP = entry

\* the tracer's actions of the claim's list, in its order; reading the word and
\* writing the patched word are the two halves of `inject breakpoint`
ExpectedOrder ==
  <<"gate", "wait1", "arm", "continue", "wait2", "resolve", "read", "inject", "continue",
    "wait3", "getregs", "setregs", "restore">>

\* the place of the k-th wait in ExpectedOrder
WaitPos(k) ==
  CHOOSE i \in 1..Len(ExpectedOrder) : ExpectedOrder[i] = <<"wait1", "wait2", "wait3">>[k]

\* C2: in every run the tracer's actions so far are a prefix of the fixed order,
\* and an action after a wait was done only if that wait reported the tracee
\* stopped.
C2_FixedOrder ==
  /\ Len(log) <= Len(ExpectedOrder)
  /\ \A k \in 1..Len(log) : log[k] = ExpectedOrder[k]
  /\ Len(waitRet) <= 3
  /\ \A k \in 1..Len(waitRet) :
       /\ Len(log) >= WaitPos(k)
       /\ Len(log) > WaitPos(k) => waitRet[k]

\* a run that did every action of the list
C2_Witness == log = ExpectedOrder /\ waitRet = <<TRUE, TRUE, TRUE>>

\* the step on which the k-th wait returns, the tracee not having been stopped at
\* any moment of its window
WaitEndsUnstopped(k) ==
  /\ pc = <<"wait1", "wait2", "wait3">>[k]
  /\ pc' # pc
  /\ ~stopSeen

\* the memory with the breakpoint word at entry and nothing else changed
Patched(m) == PokeWord(m, entry, breakpointWord(PeekWord(m, entry, arch), arch), arch)

\* C3 as stated: a wait in whose window the tracee never stops returns false,
\* StopChildAtMain returns false there, and the tracee's memory and registers are
\* then as they were before the call.
C3_AbortLeavesTraceeUntouched ==
  [][\A k \in 1..3 :
       WaitEndsUnstopped(k) =>
         /\ ~waitRet'[k]
         /\ pc' = "done" /\ ret' = "false"
         /\ mem' = image'
         /\ <<"StopChildAtMain", "PT_SETREGS">> \notin sys']_vars

\* C3 amended: as stated for the first two waits; when the third wait fails no
\* register has been written, and the memory is the image with the breakpoint
\* word still at entry.
C3_AbortLeavesBreakpoint ==
  [][\A k \in 1..3 :
       WaitEndsUnstopped(k) =>
         /\ ~waitRet'[k]
         /\ pc' = "done" /\ ret' = "false"
         /\ <<"StopChildAtMain", "PT_SETREGS">> \notin sys'
         /\ k \in {1, 2} => mem' = image'
         /\ k = 3 => Mapped(entry) /\ mem' = Patched(image) /\ mem' # image']_vars

\* the third wait has timed out on a program that runs past the patched address
C3_Witness ==
  /\ Returned("false")
  /\ waitRet = <<TRUE, TRUE, FALSE>>
  /\ ~stopSeen
  /\ cpc = "main"
  /\ runState = "running"
  /\ IsTrap(mem, entry, arch)

\* the gate disallows tracing under the run's settings
Denied == ~cfgPtrace \/ scopeLevel > 1

\* C5: when the gate disallows tracing StopChildAtMain returns false having done
\* nothing but the gate check, StopAtMainInChild returns having done nothing, no
\* process issues a tracing request, a wait or a signal, and the tracee is never
\* traced or stopped and its memory is the image.
C5_GateClosedNoEffect ==
  Denied =>
    /\ pc \in {"gate", "done"}
    /\ pc = "done" => ret = "false" /\ log = <<"gate">>
    /\ cpc \in {"hook_gate", "exec", "startup", "main", "gone"}
    /\ \A c \in sys : c[1] \notin {"StopChildAtMain", "StopAtMainInChild"}
    /\ childIP \in {HookIP, StartIP, MainIP}
    /\ ~traced
    /\ runState # "stopped"
    /\ mem = image
    /\ waitRet = <<>>

\* both have returned under a closed gate and the child runs its program
C5_Witness == Denied /\ Returned("false") /\ cpc = "main" /\ scopeLevel = 2

(***************************************************************************)
(* SpecGate: one process calls ptrace_scope_ok again and again while the   *)
(* setting and the ptrace_scope file change between the calls.             *)
(***************************************************************************)
\* the texts the ptrace_scope file can hold for a level; level -1 is no file
\* (ReadAll leaves contents empty) or a file of white space
ScopeTexts(level) ==
  IF level < 0 THEN {<<>>, <<"\n">>}
  ELSE {Dec(level) \o <<"\n">>, <<" ">> \o Dec(level)}

\* nothing of StopChildAtMain or of the child is running
Parked ==
  /\ pc = "off"
  /\ IdleTracer
  /\ cpc = "off"
  /\ runState = "running"
  /\ traced = FALSE
  /\ evPending = FALSE
  /\ evStatus = 0
  /\ childIP = HookIP
  /\ sigs = 0
  /\ trueEntry = 0
  /\ procMap = OldMap
  /\ elfFile = OldElf
  /\ IdleHistory
  /\ IdleIdent
  /\ IdleRest

InitGate ==
  /\ arch = "x64"
  /\ cfgPtrace \in BOOLEAN
  /\ scopeLevel \in -1..MaxScope
  /\ scopeFile \in ScopeTexts(scopeLevel)
  /\ replayApp \in BOOLEAN
  /\ IdleGate
  /\ mem = Image(OldSeed, arch)
  /\ image = Image(OldSeed, arch)
  /\ Parked

\* a call of ptrace_scope_ok
G_Call ==
  /\ GateCall("parent")
  /\ UNCHANGED <<restVars, identVars, envVars, tracerVars, procVars, imageVars, histVars>>

\* the setting is changed or the ptrace_scope file rewritten
G_Reconfigure ==
  /\ cfgPtrace' \in BOOLEAN
  /\ scopeLevel' \in -1..MaxScope
  /\ scopeFile' \in ScopeTexts(scopeLevel')
  /\ <<cfgPtrace', scopeFile'>> # <<cfgPtrace, scopeFile>>
  /\ UNCHANGED <<restVars, identVars, arch, replayApp, gateVars, tracerVars, procVars,
                 imageVars,
                 histVars>>

NextGate == G_Call \/ G_Reconfigure

SpecGate == InitGate /\ [][NextGate]_vars

\* C4: a call of the gate returns false when the setting is disabled, false when
\* the level in the ptrace_scope file is above 1, and true otherwise, an absent
\* or empty file included; the warning is logged at most once in the process,
\* and only by a call made in the replay app.
C4_GatePolicy ==
  /\ warnings["parent"] <= 1
  /\ lastGate.proc # "none" =>
       /\ ~lastGate.enabled => ~lastGate.ret
       /\ lastGate.level > 1 => ~lastGate.ret
       /\ lastGate.enabled /\ lastGate.level <= 1 => lastGate.ret
       /\ lastGate.warn => lastGate.replay

\* the warning has been logged, and a later call that denies a two-digit level
\* in the replay app does not log it again
C4_Witness ==
  /\ warnings["parent"] = 1
  /\ lastGate.proc = "parent"
  /\ lastGate.enabled /\ lastGate.replay /\ lastGate.level > 9
  /\ ~lastGate.ret /\ ~lastGate.warn

(***************************************************************************)
(* SpecPatch: the injection (lines 517-543) and the restoration (lines     *)
(* 580-587) on a stopped tracee, for every build and every word at entry,  *)
(* the restoration following the injection with no continue in between.    *)
(***************************************************************************)
\* the values a byte of the word at entry takes: no bit, every bit but the sign
\* bit, every bit
PatchBytes == {0, 127, 255}

\* the longs of a build whose bytes are PatchBytes
PatchWords(ar) == [1..LongBytes(ar) -> PatchBytes]

InitPatch ==
  /\ arch \in ArchSet
  /\ \E c \in MainConfigs : cfgPtrace = c.enabled /\ scopeLevel = c.level /\ scopeFile = c.text
                            /\ c.enabled /\ c.level < 0
  /\ replayApp = FALSE
  /\ IdleGate
  /\ pc = "peek"
  /\ wpc = "-" /\ polls = 0 /\ childStatus = W_STOPCODE(SIGTRAP) /\ ret = "none"
  /\ entry \in {1, MemTop}
  /\ origEntryWord = Zero64
  /\ regs = 0
  /\ cpc = "startup"
  /\ runState = "stopped"
  /\ traced = TRUE
  /\ evPending = FALSE
  /\ evStatus = 0
  /\ childIP = StartIP
  /\ sigs = 0
  /\ \E w \in PatchWords(arch) : image = [Image(OldSeed, arch) EXCEPT ![entry] = w]
  /\ mem = image
  /\ trueEntry = entry
  /\ procMap = OldMap
  /\ elfFile = OldElf
  /\ IdleHistory
  /\ IdleIdent
  /\ IdleRest

\* the restoration run straight after the injection
P_Restore == Restore("cont2")

NextPatch == S_Peek \/ S_Poke \/ P_Restore

SpecPatch == InitPatch /\ [][NextPatch]_vars

\* C6: for every word at the entry address, after the injection and then the
\* restoration with no continue in between, the word at that address is the one
\* that was there before the injection.
C6_InjectRestoreIdentity ==
  (pc = "done" /\ log = <<"read", "inject", "restore">>) => mem[entry] = image[entry]

\* injection and restoration done on a 32-bit build on a word whose sign bit is
\* set and whose low byte is not the trap opcode
C6_Witness ==
  /\ Returned("true")
  /\ log = <<"read", "inject", "restore">>
  /\ arch = "x86"
  /\ image[entry] = <<255, 0, 127, 255>>
  /\ mem[entry] = image[entry]

\* C7: for every original word w the word the injection writes has its low
\* BREAK_INST_BYTES_SIZE bytes equal to BREAK_INST and its other bytes equal to
\* those of w, and origEntryWord, cut to a long, is w.
C7_PatchedWord ==
  (pc = "cont2" /\ log = <<"read", "inject">>) =>
    /\ \A i \in 1..LongBytes(arch) :
         mem[entry][i] = IF i <= BREAK_INST_BYTES_SIZE(arch) THEN BREAK_INST(arch)[i]
                         ELSE image[entry][i]
    /\ long_from_uint64(origEntryWord, arch) = image[entry]
    /\ origEntryWord = uint64_from_long(image[entry], arch)

\* a word of all ones patched on the 64-bit x86 build: the low byte is the trap
\* opcode and the seven others are kept
C7_Witness ==
  /\ pc = "cont2"
  /\ log = <<"read", "inject">>
  /\ arch = "x64"
  /\ image[entry] = [i \in 1..8 |-> 255]
  /\ mem[entry] = <<204, 255, 255, 255, 255, 255, 255, 255>>

(***************************************************************************)
(* SpecResolve: the entry-address resolution (lines 392-510) and the       *)
(* injection that follows it, on a tracee stopped at its exec, for every   *)
(* /proc/<pid>/map and every ELF file of the sets below.                   *)
(***************************************************************************)
\* e_entry and sh_addr
ElfVals == 0..MaxElfVal
SectionSizes == {0, 1, 2}
SectionOffsets == {0, 1}
Sections == {Section(a, n, o) : a \in ElfVals, n \in SectionSizes, o \in SectionOffsets}

\* the section headers that can be read: at most MaxSections of them
SectionTables == UNION {[1..k -> Sections] : k \in 0..MaxSections}

\* readable ELF files with every header field and every table; the file may end
\* before the e_shnum-th section header
WideElfs ==
  { ElfFile(TRUE, TRUE, TRUE, x[1], x[2], x[3], x[4]) :
      x \in { y \in ElfVals \X {0, 1} \X (0..MaxSections) \X SectionTables : Len(y[4]) <= y[3] } }

\* ELF files that cannot be opened or read, or whose e_shentsize is not
\* sizeof(Elf64_Shdr)
FlagElfs ==
  { ElfFile(o, h, z, 1, off, 1, <<Section(0, 2, 1)>>) :
      o \in BOOLEAN, h \in BOOLEAN, z \in BOOLEAN, off \in {0, 1} }

\* a map whose only line is an executable mapping at a base that is not 0
SimpleMaps == { [open |-> TRUE, lines |-> <<MapLine(TRUE, TRUE, b)>>] : b \in 1..MaxBase }

\* maps that cannot be opened, are empty, hold one line of any kind, or hold two
MapLines == { MapLine(rx, parsed, b) : rx \in BOOLEAN, parsed \in BOOLEAN, b \in 0..MaxBase }
WideMaps ==
  {[open |-> FALSE, lines |-> <<>>], [open |-> TRUE, lines |-> <<>>]}
    \cup { [open |-> TRUE, lines |-> <<l>>] : l \in MapLines }
    \cup { [open |-> TRUE, lines |-> <<MapLine(FALSE, TRUE, MaxBase), l>>] : l \in MapLines }
    \cup { [open |-> TRUE, lines |-> <<l, MapLine(TRUE, TRUE, MaxBase)>>] : l \in MapLines }

InitResolve ==
  /\ arch = "x64"
  /\ \E c \in MainConfigs : cfgPtrace = c.enabled /\ scopeLevel = c.level /\ scopeFile = c.text
                            /\ c.enabled /\ c.level < 0
  /\ replayApp = FALSE
  /\ IdleGate
  /\ pc = "resolve"
  /\ wpc = "-" /\ polls = 0 /\ childStatus = W_STOPCODE(SIGTRAP) /\ ret = "none"
  /\ entry = 0
  /\ origEntryWord = Zero64
  /\ regs = 0
  /\ cpc = "startup"
  /\ runState = "stopped"
  /\ traced = TRUE
  /\ evPending = FALSE
  /\ evStatus = 0
  /\ childIP = StartIP
  /\ sigs = 0
  /\ image = Image(CHOOSE seed \in NewSeeds : seed.hi = 255, arch)
  /\ mem = image
  /\ trueEntry = MemTop
  /\ \/ procMap \in SimpleMaps /\ elfFile \in WideElfs
     \/ procMap \in WideMaps /\ elfFile \in FlagElfs
  /\ IdleHistory
  /\ IdleIdent
  /\ IdleRest

NextResolve == S_Resolve \/ S_Peek \/ S_Poke

SpecResolve == InitResolve /\ [][NextResolve]_vars

\* the resolution has run
Resolved == Len(log) >= 1

\* the map has an executable line, and the first one is parsed to a base that is
\* not 0
HasBase ==
  /\ procMap.open
  /\ \E k \in 1..Len(procMap.lines) :
       /\ procMap.lines[k].rx /\ procMap.lines[k].parsed /\ procMap.lines[k].start # 0
       /\ \A j \in 1..(k - 1) : ~procMap.lines[j].rx

\* the start of the first executable mapping
MappingBase ==
  LET k == CHOOSE k \in 1..Len(procMap.lines) :
             procMap.lines[k].rx /\ \A j \in 1..(k - 1) : ~procMap.lines[j].rx
  IN  procMap.lines[k].start

\* the resolution produced the address addr and StopChildAtMain went on
ResolvedTo(addr) ==
  /\ entry = addr
  /\ ret = "none"
  /\ Len(log) = 1 => pc = "peek"

\* the resolution failed: StopChildAtMain returned false with nothing injected
ResolveFailed == pc = "done" /\ ret = "false" /\ log = <<"resolve">> /\ mem = image

\* C8: for a binary whose header has e_shoff = 0 the resolution yields the
\* mapping base plus e_entry, for every base and every e_entry.
C8_FlatBinary ==
  (Resolved /\ HasBase /\ elfFile.open /\ elfFile.hdr /\ elfFile.e_shoff = 0) =>
    ResolvedTo(MappingBase + elfFile.e_entry)

\* a flat binary with the highest entry address, resolved and patched there
C8_Witness ==
  /\ pc = "cont2"
  /\ elfFile.e_shoff = 0 /\ elfFile.e_entry = MaxElfVal /\ elfFile.e_shnum > 0
  /\ MappingBase = MaxBase
  /\ entry = MaxBase + MaxElfVal
  /\ IsTrap(mem, entry, arch)

\* the resolution ran on a binary with a section header table
WithTable ==
  /\ Resolved /\ HasBase /\ elfFile.open /\ elfFile.hdr
  /\ elfFile.e_shoff # 0 /\ elfFile.shentsize

\* the readable sections, of the e_shnum declared, whose range
\* [sh_addr, sh_addr + sh_size) holds e_entry
Containing ==
  { k \in 1..Len(elfFile.sections) :
      /\ k <= elfFile.e_shnum
      /\ elfFile.sections[k].sh_addr <= elfFile.e_entry
      /\ elfFile.e_entry < elfFile.sections[k].sh_addr + elfFile.sections[k].sh_size }

\* mapping base + (entry virtual - section virtual address + section file offset)
Rebased(k) ==
  MappingBase + ((elfFile.e_entry - elfFile.sections[k].sh_addr) + elfFile.sections[k].sh_offset)

\* C9 as stated: with a section header table the resolution takes the unique
\* section whose range holds the entry and yields the rebased address; when no
\* section holds it the resolution fails and no breakpoint is injected.
C9_UniqueSectionOrFail ==
  WithTable =>
    /\ \A k \in Containing : Containing = {k} => ResolvedTo(Rebased(k))
    /\ Containing = {} => ResolveFailed /\ "inject" \notin log

\* C9 amended: the resolution takes the first section, in table order, whose
\* range holds the entry and yields the rebased address; when no section of the
\* table holds it the resolution yields mapping base + e_entry and
\* StopChildAtMain goes on, and it fails only when a section header cannot be
\* read.
C9_FirstSectionOrFallback ==
  WithTable =>
    IF Containing # {}
    THEN ResolvedTo(Rebased(CHOOSE k \in Containing : \A j \in Containing : k <= j))
    ELSE IF Len(elfFile.sections) >= elfFile.e_shnum
         THEN ResolvedTo(MappingBase + elfFile.e_entry)
         ELSE ResolveFailed

\* two sections hold the entry and rebase it differently; the first was taken and
\* the breakpoint is at the address it gives
C9_Witness ==
  /\ WithTable
  /\ pc = "cont2"
  /\ Containing = {1, 2}
  /\ Rebased(1) # Rebased(2)
  /\ entry = Rebased(1)
  /\ IsTrap(mem, entry, arch)

(***************************************************************************)
(* SpecIdent: GetIdentPort, lines 114-197, on what the lsof command may    *)
(* print: nothing, the "ERROR" of a failed popen, or `lsof -F n` lines.    *)
(***************************************************************************)
\* the runs of execcmd the loop of line 118 allows
MaxAttempts == 10

\* a line of output: its text, the pid it names (a p line) and the port it names
\* (an n*:<port> line), -1 when it names none
OutLine(text, pid, port) == [text |-> text, pid |-> pid, port |-> port]

\* the pids the p line names, and the pids GetIdentPort is called with
LinePids == {12, 120}
ChildPids == {12, 120}

\* the first line: p<pid>, a p with no digits, or a line that is no p line
FirstLines ==
  { OutLine(<<"p">> \o Dec(n), n, -1) : n \in LinePids }
    \cup {OutLine(<<"p">>, -1, -1), OutLine(<<"f", "3">>, -1, -1)}

\* the ports the n*: lines name: the ends of the range, their neighbours, and a
\* port whose first five digits are a port of the range
LinePorts ==
  { RenderDoc_FirstTargetControlPort - 1, RenderDoc_FirstTargetControlPort,
    RenderDoc_LastTargetControlPort, RenderDoc_LastTargetControlPort + 1,
    RenderDoc_FirstTargetControlPort * 10 }

\* the lines after the first: a file descriptor, a port marker, a marker with *
\* for the port or with no port, the name of a socket bound to one address
MoreLines ==
  { OutLine(netString \o Dec(n), -1, n) : n \in LinePorts }
    \cup { OutLine(<<"f", "3">>, -1, -1),
           OutLine(netString \o <<"*">>, -1, -1),
           OutLine(netString, -1, -1),
           OutLine(<<"n", "1", ":">> \o Dec(RenderDoc_FirstTargetControlPort), -1, -1) }

\* the outputs of lsof: a first line and at most MaxLines more
LsofOutputs == UNION { {<<f>> \o m : f \in FirstLines, m \in [1..k -> MoreLines]} : k \in 0..MaxLines }

RECURSIVE Render(_, _, _)
\* the text of the lines, each ended by eol, the last one only if `last`
Render(lines, eol, last) ==
  IF lines = <<>> THEN <<>>
  ELSE Head(lines).text
         \o (IF Len(lines) > 1 \/ last THEN eol ELSE <<>>)
         \o Render(Tail(lines), eol, last)

InitIdent ==
  /\ arch = "x64"
  /\ \E c \in MainConfigs : cfgPtrace = c.enabled /\ scopeLevel = c.level /\ scopeFile = c.text
                            /\ c.enabled /\ c.level < 0
  /\ replayApp = FALSE
  /\ IdleGate
  /\ pc = "off"
  /\ IdleTracer
  /\ cpc = "off"
  /\ runState = "running"
  /\ traced = FALSE
  /\ evPending = FALSE
  /\ evStatus = 0
  /\ childIP = MainIP
  /\ sigs = 0
  /\ mem = Image(OldSeed, arch)
  /\ image = Image(OldSeed, arch)
  /\ trueEntry = 0
  /\ procMap = OldMap
  /\ elfFile = OldElf
  /\ IdleHistory
  /\ ipc = "exec"
  /\ childPid \in ChildPids
  /\ tries = 0
  /\ wait = 1
  /\ result = <<>>
  /\ outLines = <<>>
  /\ portRet = 0
  /\ slept = <<>>
  /\ maxIndex = -1
  /\ IdleRest

\* lines 120-122: result = execcmd(...); a result that is not empty ends the loop
I_Exec ==
  /\ ipc = "exec"
  /\ tries' = tries + 1
  /\ \/ result' = <<>> /\ outLines' = <<>>
     \/ result' = <<"E", "R", "R", "O", "R">> /\ outLines' = <<>>
     \/ \E out \in LsofOutputs, eol \in {<<"\n">>, <<"\r", "\n">>}, last \in BOOLEAN :
          result' = Render(out, eol, last) /\ outLines' = out
  /\ ipc' = IF result' # <<>> THEN "parse" ELSE "sleep"
  /\ UNCHANGED <<restVars, envVars, gateVars, tracerVars, procVars, imageVars, histVars,
                 childPid, wait,
                 portRet, slept, maxIndex>>

I_Sleep_linear ==
  /\ ipc = "sleep"
  /\ slept' = Append(slept, wait * 1000)
  /\ wait' = wait + 1
  /\ ipc' = IF tries < MaxAttempts THEN "exec" ELSE "parse"
  /\ UNCHANGED <<restVars, envVars, gateVars, tracerVars, procVars, imageVars, histVars,
                 childPid, tries,
                 result, outLines, portRet, maxIndex>>

\* lines 123-124 and the loop's test at line 118: usleep(wait * 1000); wait *= 2.
\* wait is a uint32_t: ten doublings of 1 stay far below 2^32
I_Sleep ==
  /\ ipc = "sleep"
  /\ slept' = Append(slept, wait * 1000)
  /\ wait' = wait * 2
  /\ ipc' = IF tries < MaxAttempts THEN "exec" ELSE "parse"
  /\ UNCHANGED <<restVars, envVars, gateVars, tracerVars, procVars, imageVars, histVars,
                 childPid, tries,
                 result, outLines, portRet, maxIndex>>

\* lines 126-196: 0 on an empty result, else the parser's value
I_Parse ==
  /\ ipc = "parse"
  /\ \E beyond \in {"\n", NUL} :
       /\ portRet' = IF result = <<>> THEN 0 ELSE ParseIdent(result, childPid, beyond)
       /\ maxIndex' = IF result = <<>> THEN maxIndex
                      ELSE ParseIdentIndex(result, childPid, beyond)
  /\ ipc' = "done"
  /\ UNCHANGED <<restVars, envVars, gateVars, tracerVars, procVars, imageVars, histVars,
                 childPid, tries,
                 wait, result, outLines, slept>>

NextIdent == I_Exec \/ I_Sleep \/ I_Parse

SpecIdent == InitIdent /\ [][NextIdent]_vars

\* a port of the range
InPortRange(port) ==
  port >= RenderDoc_FirstTargetControlPort /\ port <= RenderDoc_LastTargetControlPort

RECURSIVE FirstPortInRange(_)
\* the first port of the range the lines name, in their order; 0 when none does
FirstPortInRange(lines) ==
  IF lines = <<>> THEN 0
  ELSE IF InPortRange(Head(lines).port) THEN Head(lines).port
  ELSE FirstPortInRange(Tail(lines))

\* C10: on a non-empty output GetIdentPort returns 0 when the pid of the leading
\* p line is not childPid, and otherwise the first n*:<port> value, in output
\* order, that lies in the port range, earlier ports outside the range being
\* skipped; the value returned is 0 or a port of the range.
C10_FirstPortInRange ==
  (ipc = "done" /\ result # <<>>) =>
    /\ portRet = 0 \/ InPortRange(portRet)
    /\ outLines # <<>> =>
         portRet = IF outLines[1].pid # childPid THEN 0 ELSE FirstPortInRange(Tail(outLines))

\* the output names a port above the range and then the last port of the range,
\* which is returned, after the command had printed nothing at first
C10_Witness ==
  /\ ipc = "done"
  /\ tries > 1
  /\ Len(outLines) = 3
  /\ outLines[1].pid = childPid
  /\ outLines[2].port = RenderDoc_LastTargetControlPort + 1
  /\ outLines[3].port = RenderDoc_LastTargetControlPort
  /\ portRet = RenderDoc_LastTargetControlPort

\* the sleeps the loop has done: one after every run of execcmd that printed
\* nothing, the last of them still to come while ipc = "sleep"
SleepsDone == IF result # <<>> \/ ipc = "sleep" THEN tries - 1 ELSE tries

\* what holds of the retry loop at every moment
RetryLoopState ==
  /\ tries <= MaxAttempts
  /\ Len(slept) = SleepsDone
  /\ \A k \in 1..Len(slept) : slept[k] = 1000 * 2 ^ (k - 1)
  /\ \A k \in 2..Len(slept) : slept[k] = 2 * slept[k - 1]
  /\ (ipc = "done" /\ result = <<>>) => tries = MaxAttempts /\ portRet = 0

\* C11: GetIdentPort runs the command at most 10 times; the sleeps after the
\* empty results are 1 ms, 2 ms, 4 ms, ..., each twice the one before; once a run
\* has printed something the command is not run again; when all ten runs print
\* nothing the value returned is 0.
C11_RetryBackoff ==
  /\ []RetryLoopState
  /\ [][/\ result # <<>> => tries' = tries /\ result' = result
        /\ tries' # tries => tries' = tries + 1 /\ Len(slept) = tries]_vars

\* ten runs printed nothing: ten sleeps, the last of 512 ms, and 0 is returned
C11_Witness ==
  /\ ipc = "done"
  /\ tries = MaxAttempts
  /\ result = <<>>
  /\ portRet = 0
  /\ Len(slept) = MaxAttempts
  /\ slept[1] = 1000
  /\ slept[MaxAttempts] = 512000

(***************************************************************************)
(* ResumeProcess, lines 617-684, called once StopChildAtMain has returned. *)
(* Each system call is one step: the child and a debugger run between      *)
(* them.  Time is counted in seconds.                                      *)
(***************************************************************************)
tracerKey == <<"T", "r", "a", "c", "e", "r", "P", "i", "d", ":">>

\* the pid of the process tracing the child: a debugger, the parent, none
TracerOfChild == IF debugger THEN 555 ELSE IF traced THEN 1 ELSE 0

\* what FileIO::ReadAll leaves in `status`, line 648: a text with the key
\* "TracerPid:", the one line without keys FreeBSD's procfs writes
StatusText(kind, tracer) ==
  CASE kind = "linux" ->
         <<"P", "i", "d", ":", "\t", "7", "\n">> \o tracerKey \o <<"\t">> \o Dec(tracer)
           \o <<"\n", "U", "i", "d", ":", "\t", "0", "\n">>
    [] OTHER -> <<"s", "h", " ", "7", " ", "1", "\n">>

\* lines 650-666 on the text read: "nokey" when find fails (line 652), else
\* whether the text after erase(0, offs + sizeof("TracerPid:")) and trim does not
\* start with '0'; sizeof counts the terminator
TracerSeen(status) ==
  LET offs == find(status, tracerKey, 0)
      erased == SubSeq(status, offs + Len(tracerKey) + 2, Len(status))
  IN  IF offs < 0 THEN "nokey"
      ELSE IF At(trim(erased), 0) # "0" THEN "yes" ELSE "no"

\* ptrace(PT_DETACH, childPid, NULL, 0), lines 630 and 682: the child is no longer
\* traced and runs on with no signal delivered; the request fails, and is
\* ignored, when the child is not traced or not stopped
ptrace_detach ==
  IF PtraceOk
  THEN traced' = FALSE /\ runState' = "running" /\ evPending' = FALSE
  ELSE UNCHANGED <<traced, runState, evPending>>

\* kill(childPid, SIGCONT), line 671: a process stopped by a signal runs on; one
\* stopped under a tracer stays with its tracer
kill_SIGCONT ==
  IF runState = "stopped" /\ ~traced /\ ~debugger
  THEN runState' = "running" /\ evPending' = FALSE
  ELSE UNCHANGED <<runState, evPending>>

\* line 636
timeoutNanoseconds == delaySeconds

LoopGoesOn_once(startN, endN, timeout) == FALSE

\* line 667: while(end_nano - start_nano < timeoutNanoseconds)
LoopGoesOn(startN, endN, timeout) == endN - startN < timeout

NextAfterGetIP_return(ip) == IF ip # 0 THEN "detach_stop" ELSE "done"

\* lines 627-680: with the instruction pointer the path of the delay, which
\* returns at line 674; without it the error, and on to line 682
NextAfterGetIP(ip) == IF ip # 0 THEN "detach_stop" ELSE "detach"

\* the caller calls ResumeProcess(childPid, delaySeconds), lines 617-623
R_Call ==
  /\ rpc = "off" /\ pc = "done"
  /\ statusKind' \in {"linux", "freebsd"}
  /\ \E p \in {0, 7}, d \in 0..MaxDelay :
       /\ resumePid' = p
       /\ delaySeconds' = d
       /\ rpc' = IF p = 0 THEN "done" ELSE IF d > 0 THEN "getip" ELSE "detach"
  /\ UNCHANGED <<envVars, gateVars, tracerVars, procVars, imageVars, histVars, identVars,
                 dbgVars,
                 start_nano, end_nano, connected, rlog, now, debugger>>

\* lines 625-627 and 676-679: get_child_ip; 0 logs the error and goes on to the
\* detach of line 682
R_GetIP ==
  /\ rpc = "getip"
  /\ rlog' = IF get_child_ip # 0 THEN Append(rlog, "PT_GETREGS")
             ELSE rlog \o <<"PT_GETREGS", "RDCERR">>
  /\ rpc' = NextAfterGetIP(get_child_ip)
  /\ sys' = sys \cup {<<"ResumeProcess", "PT_GETREGS">>}
  /\ UNCHANGED <<envVars, gateVars, tracerVars, procVars, imageVars, identVars, dbgVars, log,
                 waitRet,
                 ipAtStop, wordBefore, stopSeen, resumePid, delaySeconds, start_nano,
                 end_nano, connected, now, statusKind, debugger>>

\* lines 629-640: "detach but stop", then start_nano = get_nanotime()
R_DetachStop ==
  /\ rpc = "detach_stop"
  /\ ptrace_detach
  /\ rlog' = Append(rlog, "PT_DETACH")
  /\ sys' = sys \cup {<<"ResumeProcess", "PT_DETACH">>}
  /\ start_nano' = now
  /\ end_nano' = 0
  /\ connected' = FALSE
  /\ rpc' = "poll"
  /\ UNCHANGED <<envVars, gateVars, tracerVars, imageVars, identVars, dbgVars, cpc, evStatus,
                 childIP,
                 sigs, log, waitRet, ipAtStop, wordBefore, stopSeen, resumePid,
                 delaySeconds, now, statusKind, debugger>>

\* get_nanotime, lines 231-237: the monotonic clock reaches the next second while
\* ResumeProcess polls; it is followed until the longest delay has passed
Tick ==
  /\ rpc = "poll"
  /\ now < start_nano + MaxDelay
  /\ now' = now + 1
  /\ UNCHANGED <<envVars, gateVars, tracerVars, procVars, imageVars, histVars, identVars,
                 dbgVars, rpc, resumePid, delaySeconds, start_nano, end_nano, connected,
                 rlog, statusKind, debugger>>

\* lines 642-667, one turn of the loop: usleep(10), the status is read and
\* searched, end_nano = get_nanotime(), and the loop goes on while
\* end_nano - start_nano < timeoutNanoseconds
R_Poll ==
  /\ rpc = "poll"
  /\ \E status \in {StatusText(statusKind, TracerOfChild)} :
     \E seen \in {TracerSeen(status)} :
         /\ end_nano' = IF seen = "nokey" THEN end_nano ELSE now
         /\ connected' = (seen = "yes")
         /\ rpc' = IF seen = "no" /\ LoopGoesOn(start_nano, now, timeoutNanoseconds)
                   THEN "poll" ELSE "after"
  /\ UNCHANGED <<envVars, gateVars, tracerVars, procVars, imageVars, histVars, identVars,
                 dbgVars, resumePid, delaySeconds, start_nano, rlog, now, statusKind,
                 debugger>>

\* lines 668-675: kill(childPid, SIGCONT) unless connected, then return
R_After ==
  /\ rpc = "after"
  /\ IF connected
     THEN UNCHANGED <<runState, evPending, rlog, sys>>
     ELSE /\ kill_SIGCONT
          /\ rlog' = Append(rlog, "kill")
          /\ sys' = sys \cup {<<"ResumeProcess", "kill">>}
  /\ rpc' = "done"
  /\ UNCHANGED <<envVars, gateVars, tracerVars, imageVars, identVars, dbgVars, cpc, traced,
                 evStatus,
                 childIP, sigs, log, waitRet, ipAtStop, wordBefore, stopSeen, resumePid,
                 delaySeconds, start_nano, end_nano, connected, now, statusKind, debugger>>

\* lines 681-682: "try to detach and resume the process, ignoring any errors"
R_Detach ==
  /\ rpc = "detach"
  /\ ptrace_detach
  /\ rlog' = Append(rlog, "PT_DETACH")
  /\ sys' = sys \cup {<<"ResumeProcess", "PT_DETACH">>}
  /\ rpc' = "done"
  /\ UNCHANGED <<envVars, gateVars, tracerVars, imageVars, identVars, dbgVars, cpc, evStatus,
                 childIP,
                 sigs, log, waitRet, ipAtStop, wordBefore, stopSeen, resumePid,
                 delaySeconds, start_nano, end_nano, connected, now, statusKind, debugger>>

\* a debugger attaches to the child the parent has let go of: the child stops
D_Attach ==
  /\ rpc \in {"poll", "after"}
  /\ ~traced /\ ~debugger /\ runState \in {"running", "stopped"}
  /\ debugger' = TRUE
  /\ runState' = "stopped"
  /\ UNCHANGED <<envVars, gateVars, tracerVars, imageVars, histVars, identVars, dbgVars, cpc,
                 traced,
                 evPending, evStatus, childIP, sigs, rpc, resumePid, delaySeconds,
                 start_nano, end_nano, connected, rlog, now, statusKind>>

\* the runs of Spec with tracing enabled, on one build, followed by ResumeProcess
InitResume ==
  /\ arch = "x64"
  /\ \E c \in MainConfigs : cfgPtrace = c.enabled /\ scopeLevel = c.level /\ scopeFile = c.text
  /\ replayApp = FALSE
  /\ IdleGate
  /\ pc = "gate"
  /\ IdleTracer
  /\ cpc = "hook_gate"
  /\ runState = "running"
  /\ traced = FALSE
  /\ evPending = FALSE
  /\ evStatus = 0
  /\ childIP = HookIP
  /\ sigs = 0
  /\ mem = Image(OldSeed, arch)
  /\ image = Image(OldSeed, arch)
  /\ trueEntry = 0
  /\ procMap = OldMap
  /\ elfFile = OldElf
  /\ IdleHistory
  /\ IdleIdent
  /\ IdleRest

NextResume ==
  \/ Next
  \/ R_Call \/ R_GetIP \/ R_DetachStop \/ R_Poll \/ R_After \/ R_Detach
  \/ Tick \/ D_Attach

SpecResume == InitResume /\ [][NextResume]_vars

(***************************************************************************)
(* Properties of ResumeProcess, under SpecResume.                          *)
(***************************************************************************)
\* ResumeProcess found the tracee stopped and took the path of lines 628-674
DelayPathTaken ==
  /\ delaySeconds > 0
  /\ Len(rlog) >= 2
  /\ rlog[2] = "PT_DETACH"

\* the continue signals ResumeProcess has sent
Kills == Cardinality({k \in 1..Len(rlog) : rlog[k] = "kill"})

\* the delay had elapsed at the last reading of the clock
Elapsed == end_nano - start_nano >= timeoutNanoseconds

\* the status source holds no "TracerPid:" key
NoKey == TracerSeen(StatusText(statusKind, TracerOfChild)) = "nokey"

DelayWithoutStop == delaySeconds > 0 /\ Len(rlog) >= 2 /\ rlog[2] = "RDCERR"

\* C13 as stated: with delay > 0 and a tracee that is not stopped, ResumeProcess
\* logs an error and does nothing further: no detach request, no signal.
C13_ErrorThenNothing ==
  DelayWithoutStop => rlog = <<"PT_GETREGS", "RDCERR">>

\* C13, amended: with delay > 0 and a tracee that is not stopped, ResumeProcess
\* logs an error, then issues the detach request of the zero-delay path and
\* returns; it sends no signal to the tracee.
C13_ErrorThenPlainDetach ==
  DelayWithoutStop =>
    /\ Kills = 0
    /\ IF rpc = "done" THEN rlog = <<"PT_GETREGS", "RDCERR", "PT_DETACH">>
                       ELSE rpc = "detach" /\ rlog = <<"PT_GETREGS", "RDCERR">>

\* ResumeProcess has returned after the error, the child being traced and running
\* all the while
C13_Witness ==
  /\ DelayWithoutStop
  /\ rpc = "done"
  /\ rlog = <<"PT_GETREGS", "RDCERR", "PT_DETACH">>
  /\ traced
  /\ runState = "running"

\* C14: with delay > 0 and a stopped tracee, from the detach of line 630 until a
\* tracer attaches or the continue signal is sent the tracee does not run.
C14_DetachLeavesSuspended ==
  (DelayPathTaken /\ rpc \in {"poll", "after"} /\ ~debugger) => runState # "running"

(***************************************************************************)
(* CacheDebuggerPresent and OSUtility::DebuggerPresent, lines 686-727.     *)
(***************************************************************************)
\* the lines fgets reads from /proc/self/status: with the key "TracerPid:", the
\* one line FreeBSD's procfs writes, no line at all
SelfStatusLines(kind, tracer) ==
  CASE kind = "linux" ->
         << <<"P", "i", "d", ":", "\t", "7", "\n">>,
            tracerKey \o <<"\t">> \o Dec(tracer) \o <<"\n">>,
            <<"U", "i", "d", ":", "\t", "0", "\n">> >>
    [] kind = "freebsd" -> << <<"s", "h", " ", "7", " ", "1", "\n">> >>
    [] OTHER -> <<>>

\* line 709: sscanf(line, "TracerPid: %d", &tracerpid): the key at the start of the
\* line, white space, a decimal number; num is the count of conversions done
sscanf_TracerPid(line) ==
  LET j == atoi_skip(line, Len(tracerKey))
      signed == At(line, j) \in {"-", "+"}
      d == IF signed THEN j + 1 ELSE j
  IN  IF MatchAt(line, tracerKey, 0) /\ IsDigit(At(line, d))
      THEN [num |-> 1, tracerpid |-> atoi(line, j)]
      ELSE [num |-> 0, tracerpid |-> 0]

\* lines 694-721: the values debuggerPresent may have when CacheDebuggerPresent
\* returns.  A file that cannot be opened leaves the flag alone (lines 696-700), and
\* so does one with no line that scans; the first line that scans sets it (lines
\* 711-715); with no line at all fgets leaves `line` uninitialised and sscanf may
\* find anything in it
CacheOutcomes(kind, tracer, flag) ==
  LET lines == SelfStatusLines(kind, tracer)
      hits == {i \in 1..Len(lines) : sscanf_TracerPid(lines[i]).num = 1}
      first == CHOOSE i \in hits : \A k \in hits : i <= k
  IN  IF kind = "unopenable" THEN {flag}
      ELSE IF lines = <<>> THEN BOOLEAN
      ELSE IF hits = {} THEN {flag}
      ELSE {sscanf_TracerPid(lines[first]).tracerpid # 0}

DebuggerPresent_live == selfTracer # 0

\* lines 724-727: return debuggerPresent
DebuggerPresent == debuggerPresent

\* CacheDebuggerPresent is called once, when the library is loaded
CalledAtStartup == dpc = "start"

\* lines 692-722
DP_Cache ==
  /\ CalledAtStartup
  /\ \E kind \in {"linux", "freebsd", "empty", "unopenable"} :
       debuggerPresent' \in CacheOutcomes(kind, selfTracer, debuggerPresent)
  /\ computed' = debuggerPresent'
  /\ dpc' = "cached"
  /\ UNCHANGED <<envVars, gateVars, tracerVars, procVars, imageVars, histVars, identVars,
                 rpc, resumePid, delaySeconds, start_nano, end_nano, connected, rlog, now,
                 statusKind, debugger, selfTracer, answers>>

\* a call of OSUtility::DebuggerPresent after that
DP_Query ==
  /\ dpc = "cached"
  /\ answers' = answers \cup {DebuggerPresent}
  /\ UNCHANGED <<envVars, gateVars, tracerVars, procVars, imageVars, histVars, identVars,
                 rpc, resumePid, delaySeconds, start_nano, end_nano, connected, rlog, now,
                 statusKind, debugger, debuggerPresent, dpc, selfTracer, computed>>

\* a debugger attaches to this process or detaches from it
DP_Tracer ==
  /\ selfTracer' \in {0, 555} \ {selfTracer}
  /\ UNCHANGED <<envVars, gateVars, tracerVars, procVars, imageVars, histVars, identVars,
                 rpc, resumePid, delaySeconds, start_nano, end_nano, connected, rlog, now,
                 statusKind, debugger, debuggerPresent, dpc, computed, answers>>

\* the process with tracing of children disabled: the flag, and the operations of
\* the parent that then run to their end
InitDebugger ==
  /\ arch = "x64"
  /\ cfgPtrace = FALSE /\ scopeLevel = -1 /\ scopeFile = <<>>
  /\ replayApp = FALSE
  /\ IdleGate
  /\ pc = "gate"
  /\ IdleTracer
  /\ cpc = "hook_gate"
  /\ runState = "running"
  /\ traced = FALSE
  /\ evPending = FALSE
  /\ evStatus = 0
  /\ childIP = HookIP
  /\ sigs = 0
  /\ mem = Image(OldSeed, arch)
  /\ image = Image(OldSeed, arch)
  /\ trueEntry = 0
  /\ procMap = OldMap
  /\ elfFile = OldElf
  /\ IdleHistory
  /\ IdleIdent
  /\ IdleRest

NextDebugger ==
  \/ DP_Cache \/ DP_Query \/ DP_Tracer
  \/ S_Gate \/ R_Call \/ R_GetIP \/ R_Detach

SpecDebugger == InitDebugger /\ [][NextDebugger]_vars

\* C15: once CacheDebuggerPresent has returned, the flag keeps the value it then
\* had and every call of OSUtility::DebuggerPresent has returned that value,
\* whatever the process's tracer has become; no step but CacheDebuggerPresent's
\* changes the flag.
C15_FlagCached ==
  /\ [](dpc = "cached" => debuggerPresent = computed /\ answers \subseteq {computed})
  /\ [][debuggerPresent' # debuggerPresent => dpc = "start" /\ dpc' = "cached"]_vars

\* the flag was computed with a debugger attached, the debugger has gone, and
\* DebuggerPresent has still answered true
C15_Witness ==
  /\ dpc = "cached"
  /\ computed = TRUE
  /\ selfTracer = 0
  /\ answers = {TRUE}
  /\ rpc = "done"

(***************************************************************************)
(* Properties of wait_traced_child and of the first wait, under Spec.      *)
(***************************************************************************)
\* the step on which wait_traced_child returns
WaitReturns == pc \in WaitStages /\ Len(waitRet') = Len(waitRet) + 1

\* C16: wait_traced_child returns true exactly when waitpid reported a stopped
\* status for the child or the instruction pointer was readable; on the
\* instruction-pointer path the tracee is stopped, the status is that of the second
\* waitpid when it matched and 0 otherwise; it returns false, with status 0, when
\* the deadline passes, and false when waitpid reports a status that is not a stop.
C16_WaitJudgedStopped ==
  [][WaitReturns =>
       LET r == waitRet'[Len(waitRet')]
           byWait == wpc = "waitpid" /\ evPending /\ WIFSTOPPED(evStatus)
           byIP == wpc = "waitpid2"
       IN  /\ r <=> (byWait \/ byIP)
           /\ byWait => childStatus' = evStatus
           /\ byIP => PtraceOk /\ childStatus' = (IF evPending THEN evStatus ELSE 0)
           /\ ~r => \/ wpc = "sleep" /\ childStatus' = 0
                    \/ wpc = "waitpid" /\ evPending /\ ~WIFSTOPPED(evStatus)
                       /\ childStatus' = evStatus]_vars

\* the first wait has returned true with status 0: the wait for the child was
\* swallowed and the instruction pointer was readable
C16_Witness ==
  /\ waitRet = <<TRUE>>
  /\ childStatus = 0
  /\ pc = "lwpinfo"
  /\ runState = "stopped"

\* the tracer is arming the exec-stop trap or issuing the first continue
Arming == pc \in {"lwpinfo", "cont1"}

\* C17 as stated: StopChildAtMain fails when the first wait sees no stop, and it
\* arms the exec-stop trap and issues continue only after an initial stop whose
\* signal was SIGSTOP.
C17_ArmsOnlyAfterSIGSTOP ==
  /\ (Len(waitRet) >= 1 /\ ~waitRet[1]) => Returned("false")
  /\ Arming => runState = "stopped" /\ WSTOPSIG(evStatus) = SIGSTOP

\* C17, amended: StopChildAtMain fails when the first wait sees no stop or reports
\* a status whose stop signal is not SIGSTOP; it arms the exec-stop trap and issues
\* continue only after an initial stop whose signal was SIGSTOP or whose status the
\* wait could not collect (status 0, instruction-pointer path).
C17_ArmsAfterSIGSTOPOrUnknown ==
  /\ (Len(waitRet) >= 1 /\ ~waitRet[1]) => Returned("false")
  /\ Arming =>
       /\ runState = "stopped"
       /\ waitRet[1]
       /\ childStatus # 0 => childStatus = evStatus /\ WSTOPSIG(childStatus) = SIGSTOP
  /\ (Len(waitRet) = 1 /\ childStatus # 0 /\ WSTOPSIG(childStatus) # SIGSTOP)
       => Returned("false")

\* the tracer goes on to the first continue after a stop by SIGUSR1 whose status
\* was swallowed
C17_Witness ==
  /\ pc = "cont1"
  /\ childStatus = 0
  /\ WSTOPSIG(evStatus) = SIGUSR1
  /\ cpc = "raise"

(***************************************************************************)
(* SpecFault: the runs of Spec in which the child may also be killed from  *)
(* outside at any moment, so that the tracer's ptrace requests can fail.   *)
(***************************************************************************)
\* SIGKILL reaches the child: it ends, running or stopped, with wait status 9
Env_Kill ==
  /\ runState \in {"running", "stopped"}
  /\ cpc' = "gone"
  /\ ChildEnds(9)
  /\ UNCHANGED <<restVars, identVars, envVars, gateVars, tracerVars, traced, childIP, sigs,
                 imageVars, histVars>>

NextFault == Next \/ Env_Kill

SpecFault == Init /\ [][NextFault]_vars

\* the tracer is at a ptrace request of StopChildAtMain
AtTracingCall ==
  pc \in {"lwpinfo", "cont1", "peek", "poke", "cont2", "getregs", "setregs", "restore"}

\* the request the tracer is at succeeds: the child is traced and stopped, and a
\* transfer of a long at entry is a transfer within mapped memory
TracingCallOk ==
  IF pc \in {"peek", "poke", "restore"} THEN PtraceOk /\ Mapped(entry) ELSE PtraceOk

\* C18: a ptrace request of StopChildAtMain that fails, or a PT_IO that does not
\* transfer the whole long, ends the sequence: the tracer is then in the fatal
\* state, does nothing more of the sequence, and does not return true.
C18_TracingFailureFatal ==
  /\ [](pc = "fatal" => ret = "none")
  /\ [][(AtTracingCall /\ log' # log /\ ~TracingCallOk) => pc' = "fatal"]_vars
  /\ [][pc = "fatal" => UNCHANGED <<tracerVars, log, waitRet, mem>>]_vars

\* the second continue failed because the child had been killed after the
\* breakpoint was written
C18_Witness ==
  /\ pc = "fatal"
  /\ log[Len(log)] = "continue"
  /\ Len(log) > WaitPos(2)
  /\ runState \in {"zombie", "reaped"}

(***************************************************************************)
(* SpecLive: the runs of SpecResume and those of SpecIdent, with the       *)
(* calling process scheduled and the monotonic clock advancing.            *)
(***************************************************************************)
InitLive == InitResume \/ InitIdent

NextLive == NextResume \/ NextIdent

\* a step of StopChildAtMain
TracerStep ==
  \/ S_Gate \/ W_Waitpid \/ W_GetIP \/ W_Waitpid2 \/ W_Sleep
  \/ S_LwpInfo \/ S_Cont1 \/ S_Resolve \/ S_Peek \/ S_Poke \/ S_Cont2
  \/ S_GetRegs \/ S_SetRegs \/ S_Restore

\* a step of ResumeProcess once it has been called
ResumeStep == R_GetIP \/ R_DetachStop \/ R_Poll \/ R_After \/ R_Detach

\* a step of the retry loop of GetIdentPort, lines 118-125
IdentLoopStep == I_Exec \/ I_Sleep

\* the process calling the three functions keeps running and the clock advances
SpecLive ==
  /\ InitLive
  /\ [][NextLive]_vars
  /\ WF_vars(TracerStep)
  /\ WF_vars(ResumeStep)
  /\ WF_vars(Tick)
  /\ WF_vars(IdentLoopStep)

RequestedTracing == <<"StopAtMainInChild", "PT_TRACE_ME">> \in sys

\* the parent has issued the requests of lines 364 and 372
ArmedAndContinued ==
  /\ <<"StopChildAtMain", "PT_LWPINFO">> \in sys
  /\ <<"StopChildAtMain", "PT_CONTINUE">> \in sys

\* the parent has detached the child, line 630 or 682
DetachedByParent == <<"ResumeProcess", "PT_DETACH">> \in sys /\ ~traced

\* the step of the exec that replaces the image of the child
ReplacesImage == cpc = "exec" /\ cpc' = "startup"

\* the step of a request of lines 364, 372 (and the later PT_CONTINUE of line 524)
ArmsOrContinues == pc \in {"lwpinfo", "cont1", "cont2"} /\ pc' # pc

\* C20: in every interleaving of the child with the parent, the gate permitting
\* tracing, the child has requested tracing when it raises SIGSTOP; it replaces
\* its image only after the parent has armed the exec stop and issued continue,
\* or has detached it; and the parent issues PT_LWPINFO and PT_CONTINUE only on a
\* stopped child.
C20_Interleaving ==
  /\ [](<<"StopAtMainInChild", "raise">> \in sys => RequestedTracing)
  /\ [][(cpc = "raise" /\ cpc' # "raise") => RequestedTracing /\ ~Denied]_vars
  /\ [][(ReplacesImage /\ RequestedTracing) => ArmedAndContinued \/ DetachedByParent]_vars
  /\ [][ArmsOrContinues => runState = "stopped" /\ traced]_vars

\* the child, traced, has replaced its image after the parent armed the stop and
\* continued it, and is stopped by the exec
C20_Witness ==
  /\ RequestedTracing /\ ArmedAndContinued /\ traced
  /\ cpc = "startup" /\ runState = "stopped"

(***************************************************************************)
(* C21: what the stop of the third wait was, lines 549-577.                *)
(***************************************************************************)
\* the step of `return true`, line 593
ReturnsTrue == pc # "done" /\ pc' = "done" /\ ret' = "true"

\* the child is stopped by the trap at the entry point, nowhere else
StoppedAtBreakpoint == cpc = "trapped" /\ IsTrap(mem, entry, arch) /\ entry = trueEntry

\* C21: whenever StopChildAtMain returns true the stop the third wait saw was
\* the injected breakpoint, and the instruction pointer after the rollback is
\* the resolved entry address; a stop of the child by another signal or at
\* another address in that stage does not end in `return true`.
C21_BreakpointStopOnly ==
  [][ReturnsTrue => /\ StoppedAtBreakpoint
                    /\ childIP' = entry']_vars

(***************************************************************************)
(* C22: the indexes of the text the parser of GetIdentPort uses.           *)
(***************************************************************************)
\* the parser has run on a non-empty output
Parsed == ipc = "done" /\ result # <<>>

\* C22: for every non-empty output of the command, every index of the text the
\* parser reads or writes is at most the length of the text, the index of the
\* terminator; so too when the output ends right after the digits of the pid or
\* of a port, with no newline.
C22_IndexWithinText == Parsed => maxIndex >= 0 /\ maxIndex <= Len(result)

=============================================================================
